---- MODULE Spec2Model ----
(***************************************************************************)
(* A model of the hpxml-schema-api core: the local TTL + staleness cache   *)
(* (SchemaCache), the Redis-backed DistributedCache with its embedded      *)
(* fallback cache, the CachedSchemaParser facade and the XSDParser tree    *)
(* builder.                                                                *)
(*                                                                         *)
(* Conventions.  A Python Optional is a sequence: <<>> is None and <<x>>   *)
(* is the value x.  A dict is a function whose DOMAIN is its key set.      *)
(* Cache keys are sequences of strings, so that the prefixing done by      *)
(* DistributedCache._make_key is visible in the key.  Time is a counter    *)
(* of clock ticks; file modification times are readings of that clock.     *)
(***************************************************************************)
EXTENDS Integers, Sequences, FiniteSets, TLC

VARIABLES
    now,        \* time.time()
    fs,         \* the file system: path -> [exists, mtime, content]
    sc,         \* a SchemaCache instance: [default_ttl, cache]
    lastSet,    \* history: key -> <<>> or <<[data, at, ttl, file, mtime]>> of the latest set
    ret,        \* what the last call returned
    dc,         \* a DistributedCache instance: [default_ttl, redis_prefix, fallback_cache, redis, redis_available]
    backend,    \* the key-value store behind the Redis client: key -> [blob, set_at, ttl]
    down,       \* history: a backend call made by get or set has raised
    boot,       \* history: what happened when the DistributedCache was constructed
    fc,         \* a CachedSchemaParser instance: [cache, parser_config]
    px,         \* an XSDParser instance: <<>> or <<[schema, config, reference_cache]>>
    rt,         \* the RuleNode tree handed to parse_schematron: <<>> or <<root>>
    vm,         \* a VersionManager instance: [packaging, versions, parsers, made]
    th          \* the threads calling into a shared object: thread -> [pc, ...]

distVars == <<dc, backend, down, boot>>
facadeVars == <<fc>>
parserVars == <<px>>
rulesVars == <<rt>>
registryVars == <<vm>>
threadVars == <<th>>
beyondParser == <<rulesVars, registryVars, threadVars>>
beyondCache == <<facadeVars, parserVars, beyondParser>>
vars == <<now, fs, sc, lastSet, ret, distVars, beyondCache>>

(***************************************************************************)
(* Bounds of the model.                                                    *)
(***************************************************************************)
MaxTime == 3
DefaultTtl == 2
MaxTtlArg == 1
MaxDepthCfg == 3    \* max_recursion_depth ranges over 0..MaxDepthCfg
MaxExtCfg == 3      \* max_extension_depth ranges over 0..MaxExtCfg
MaxChain == 3       \* the longest inheritance chain declared by a schema

None == <<>>
Some(x) == <<x>>
IsNone(o) == o = <<>>
The(o) == o[1]

Keys == {<<"k1">>, <<"k2">>}
Values == {"v1", "v2"}
Files == {"f1"}
Contents == {"c1"}
TtlArgs == {None} \cup {Some(n) : n \in 0..MaxTtlArg}
FileArgs == {None} \cup {Some(f) : f \in Files}

(***************************************************************************)
(* Dict helpers.                                                           *)
(***************************************************************************)
\* F applied to the value of v, v being evaluated once.
Bind(v, F(_)) == CHOOSE x \in {F(r) : r \in {v}} : TRUE

DictSet(d, k, v) == [x \in (DOMAIN d) \cup {k} |-> IF x = k THEN v ELSE d[x]]
DictDel(d, k) == [x \in (DOMAIN d) \ {k} |-> d[x]]
EmptyDict == [x \in {} |-> 0]

(***************************************************************************)
(* The file system as the cache reads it.                                  *)
(***************************************************************************)
Path_exists(fsys, f) == fsys[f].exists
Path_st_mtime(fsys, f) == fsys[f].mtime
Md5(content) == <<"md5", content>>

(***************************************************************************)
(* CacheEntry                                                              *)
(***************************************************************************)
CacheEntry_is_expired(entry, t) == t - entry.timestamp > entry.ttl

\* Mutant: a file as old as the recorded time already counts as newer.
CacheEntry_is_stale_Mut(entry, f, fsys) ==
    IF ~Path_exists(fsys, f) THEN TRUE
    ELSE Path_st_mtime(fsys, f) >= entry.file_mtime

CacheEntry_is_stale(entry, f, fsys) ==
    IF ~Path_exists(fsys, f) THEN TRUE
    ELSE Path_st_mtime(fsys, f) > entry.file_mtime

(***************************************************************************)
(* SchemaCache.  Each operation is an operator from the instance (and the  *)
(* clock and file system it reads) to [self |-> the instance afterwards,   *)
(* val |-> the value returned].                                            *)
(***************************************************************************)
SchemaCache_init(default_ttl) == [default_ttl |-> default_ttl, cache |-> EmptyDict]

SchemaCache_get(self, key, t) ==
    IF key \notin DOMAIN self.cache
    THEN [self |-> self, val |-> None]
    ELSE IF CacheEntry_is_expired(self.cache[key], t)
         THEN [self |-> [self EXCEPT !.cache = DictDel(self.cache, key)], val |-> None]
         ELSE [self |-> self, val |-> Some(self.cache[key].data)]

\* `ttl or self.default_ttl`: None and 0 are both falsy.
TtlOrDefault(ttl, default_ttl) ==
    IF IsNone(ttl) \/ ttl = Some(0) THEN default_ttl ELSE The(ttl)

SchemaCache_set(self, key, data, ttl, file_path, t, fsys) ==
    LET tracked == ~IsNone(file_path) /\ Path_exists(fsys, The(file_path))
        entry == [data |-> data,
                  timestamp |-> t,
                  ttl |-> TtlOrDefault(ttl, self.default_ttl),
                  etag |-> IF tracked THEN Some(Md5(fsys[The(file_path)].content)) ELSE None,
                  file_mtime |-> IF tracked THEN Path_st_mtime(fsys, The(file_path)) ELSE 0]
    IN  [self |-> [self EXCEPT !.cache = DictSet(self.cache, key, entry)], val |-> None]

SchemaCache_invalidate(self, key) ==
    [self |-> [self EXCEPT !.cache = DictDel(self.cache, key)], val |-> None]

SchemaCache_clear(self) ==
    [self |-> [self EXCEPT !.cache = EmptyDict], val |-> None]

SchemaCache_check_file_staleness(self, key, f, fsys) ==
    IF key \notin DOMAIN self.cache THEN TRUE
    ELSE CacheEntry_is_stale(self.cache[key], f, fsys)

SchemaCache_get_cache_stats(self) ==
    [cache_size |-> Cardinality(DOMAIN self.cache), default_ttl |-> self.default_ttl]

(***************************************************************************)
(* The Redis client as DistributedCache uses it.  A key set with SETEX     *)
(* lives for its number of seconds; FLUSHDB empties the whole database.    *)
(***************************************************************************)
Redis_live(b, rk, t) == rk \in DOMAIN b /\ ~(t - b[rk].set_at > b[rk].ttl)
Redis_get(b, rk, t) == IF Redis_live(b, rk, t) THEN Some(b[rk].blob) ELSE None
Redis_setex(b, rk, seconds, blob, t) == DictSet(b, rk, [blob |-> blob, set_at |-> t, ttl |-> seconds])
Redis_delete(b, rk) == DictDel(b, rk)
Redis_flushdb(b) == EmptyDict
Redis_dbsize(b, t) == Cardinality({rk \in DOMAIN b : Redis_live(b, rk, t)})

(***************************************************************************)
(* DistributedCache.  Each operation takes the instance, the backend store *)
(* and `fail`, the number of the backend call that raises (0: none does),  *)
(* and yields [self, backend, val, contacted, failed, raised].             *)
(***************************************************************************)
RedisPrefix == "hpxml:"

DistributedCache_make_key(self, key) == <<self.redis_prefix, "md5">> \o key
MetaKey(redis_key) == redis_key \o <<":meta">>

\* pickle.dumps / pickle.loads
Serialize(data) == <<"pickle", data>>
Deserialize(blob) == blob[2]

\* Mutant: fakeredis is selected even after the real attempt has failed.
DistributedCache_init_backend_Mut(self, env) ==
    IF env.have_fakeredis
    THEN [self EXCEPT !.redis = "fakeredis", !.redis_available = TRUE]
    ELSE IF ~env.force_fake /\ env.have_redis /\ env.ping_ok
         THEN [self EXCEPT !.redis = "redis", !.redis_available = TRUE]
         ELSE [self EXCEPT !.redis = "None", !.redis_available = FALSE]

\* Mutant: a forced fakeredis is treated like a failed connection.
DistributedCache_init_backend_Forced(self, env) ==
    IF env.force_fake
    THEN [self EXCEPT !.redis = "None", !.redis_available = FALSE]
    ELSE LET attempted == env.have_redis
         IN  IF attempted /\ env.ping_ok
             THEN [self EXCEPT !.redis = "redis", !.redis_available = TRUE]
             ELSE IF ~attempted /\ env.have_fakeredis
                  THEN [self EXCEPT !.redis = "fakeredis", !.redis_available = TRUE]
                  ELSE [self EXCEPT !.redis = "None", !.redis_available = FALSE]

DistributedCache_init_backend(self, env) ==
    IF env.force_fake /\ env.have_fakeredis
    THEN [self EXCEPT !.redis = "fakeredis", !.redis_available = TRUE]
    ELSE LET attempted == ~env.force_fake /\ env.have_redis
             real_attempt_failed == attempted /\ ~env.ping_ok
         IN  IF attempted /\ env.ping_ok
             THEN [self EXCEPT !.redis = "redis", !.redis_available = TRUE]
             ELSE IF ~real_attempt_failed /\ env.have_fakeredis
                  THEN [self EXCEPT !.redis = "fakeredis", !.redis_available = TRUE]
                  ELSE [self EXCEPT !.redis = "None", !.redis_available = FALSE]

DistributedCache_init(default_ttl, env) ==
    LET self == [default_ttl |-> default_ttl,
                 redis_prefix |-> RedisPrefix,
                 fallback_cache |-> SchemaCache_init(default_ttl),
                 redis |-> "None",
                 redis_available |-> FALSE]
    IN  IF env.redis_client
        THEN [self EXCEPT !.redis = "client", !.redis_available = TRUE]
        ELSE DistributedCache_init_backend(self, env)

UsesBackend(self) == self.redis_available /\ self.redis # "None"

DcResult(self, b, val, contacted, failed) ==
    [self |-> self, backend |-> b, val |-> val,
     contacted |-> contacted, failed |-> failed, raised |-> FALSE]

ViaFallbackGet(self, key, t, b, contacted) ==
    LET r == SchemaCache_get(self.fallback_cache, key, t)
    IN  DcResult([self EXCEPT !.fallback_cache = r.self], b, r.val, contacted, contacted)

\* Mutant: a failed backend read falls back but leaves the flag set.
DistributedCache_get_Mut(self, key, t, b, fail) ==
    IF ~UsesBackend(self)
    THEN ViaFallbackGet(self, key, t, b, FALSE)
    ELSE IF fail = 1
         THEN ViaFallbackGet(self, key, t, b, TRUE)
         ELSE LET blob == Redis_get(b, DistributedCache_make_key(self, key), t)
              IN  DcResult(self, b,
                           IF IsNone(blob) THEN None ELSE Some(Deserialize(The(blob))),
                           TRUE, FALSE)

DistributedCache_get(self, key, t, b, fail) ==
    IF ~UsesBackend(self)
    THEN ViaFallbackGet(self, key, t, b, FALSE)
    ELSE IF fail = 1
         THEN ViaFallbackGet([self EXCEPT !.redis_available = FALSE], key, t, b, TRUE)
         ELSE LET blob == Redis_get(b, DistributedCache_make_key(self, key), t)
              IN  DcResult(self, b,
                           IF IsNone(blob) THEN None ELSE Some(Deserialize(The(blob))),
                           TRUE, FALSE)

ViaFallbackSet(self, key, data, ttl, file_path, t, fsys, b, contacted) ==
    LET r == SchemaCache_set(self.fallback_cache, key, data, ttl, file_path, t, fsys)
    IN  DcResult([self EXCEPT !.fallback_cache = r.self], b, None, contacted, contacted)

DistributedCache_set(self, key, data, ttl, file_path, t, fsys, b, fail) ==
    LET effective_ttl == TtlOrDefault(ttl, self.default_ttl)
        redis_key == DistributedCache_make_key(self, key)
        tracked == ~IsNone(file_path) /\ Path_exists(fsys, The(file_path))
        b1 == Redis_setex(b, redis_key, effective_ttl, Serialize(data), t)
        meta == [file_mtime |-> Path_st_mtime(fsys, The(file_path)),
                 etag |-> Md5(fsys[The(file_path)].content)]
        b2 == IF tracked
              THEN Redis_setex(b1, MetaKey(redis_key), effective_ttl, Serialize(meta), t)
              ELSE b1
        mirror == [mirror |-> TRUE, data |-> data,
                   file_mtime |-> IF tracked THEN Path_st_mtime(fsys, The(file_path)) ELSE 0]
        unavailable == [self EXCEPT !.redis_available = FALSE]
    IN  IF ~UsesBackend(self)
        THEN ViaFallbackSet(self, key, data, ttl, file_path, t, fsys, b, FALSE)
        ELSE IF fail = 1
             THEN ViaFallbackSet(unavailable, key, data, ttl, file_path, t, fsys, b, TRUE)
             ELSE IF fail = 2 /\ tracked
                  THEN ViaFallbackSet(unavailable, key, data, ttl, file_path, t, fsys, b1, TRUE)
                  ELSE LET r == SchemaCache_set(self.fallback_cache, redis_key, mirror,
                                                Some(effective_ttl), file_path, t, fsys)
                       IN  DcResult([self EXCEPT !.fallback_cache = r.self], b2, None, TRUE, FALSE)

DistributedCache_invalidate(self, key, b, fail) ==
    LET redis_key == DistributedCache_make_key(self, key)
        b1 == Redis_delete(b, redis_key)
        b2 == Redis_delete(b1, MetaKey(redis_key))
        uses == UsesBackend(self)
        failed == uses /\ fail \in {1, 2}
        after == IF ~uses \/ fail = 1 THEN b ELSE IF fail = 2 THEN b1 ELSE b2
        fb1 == SchemaCache_invalidate(self.fallback_cache, redis_key).self
        fb2 == SchemaCache_invalidate(fb1, key).self
    IN  DcResult([self EXCEPT !.redis_available = IF failed THEN FALSE ELSE @,
                              !.fallback_cache = fb2],
                 after, None, uses, failed)

DistributedCache_clear(self, b, fail) ==
    LET fb == SchemaCache_clear(self.fallback_cache).self
        uses == UsesBackend(self)
        failed == uses /\ fail = 1
    IN  DcResult([self EXCEPT !.redis_available = IF failed THEN FALSE ELSE @,
                              !.fallback_cache = fb],
                 IF uses /\ ~failed THEN Redis_flushdb(b) ELSE b, None, uses, failed)

DistributedCache_check_file_staleness(self, key, f, t, fsys, b, fail) ==
    LET redis_key == DistributedCache_make_key(self, key)
        g1 == SchemaCache_get(self.fallback_cache, redis_key, t)
        g2 == SchemaCache_get(g1.self, key, t)
        known == ~IsNone(g1.val) \/ ~IsNone(g2.val)
        fb == IF ~IsNone(g1.val) THEN g1.self ELSE g2.self
        self1 == [self EXCEPT !.fallback_cache = fb]
        meta_blob == Redis_get(b, MetaKey(redis_key), t)
        current_mtime == IF Path_exists(fsys, f) THEN Path_st_mtime(fsys, f) ELSE 0
    IN  IF known
        THEN DcResult(self1, b, SchemaCache_check_file_staleness(fb, redis_key, f, fsys),
                      FALSE, FALSE)
        ELSE IF UsesBackend(self)
             THEN IF fail = 1
                  THEN DcResult(self1, b, TRUE, TRUE, TRUE)
                  ELSE DcResult(self1, b,
                                IF IsNone(meta_blob) THEN TRUE
                                ELSE current_mtime > Deserialize(The(meta_blob)).file_mtime,
                                TRUE, FALSE)
             ELSE DcResult(self1, b, TRUE, FALSE, FALSE)

DistributedCache_get_cache_stats(self, t, b, fail) ==
    [redis_available |-> self.redis_available,
     default_ttl |-> self.default_ttl,
     fallback_stats |-> SchemaCache_get_cache_stats(self.fallback_cache),
     redis_key_count |-> IF UsesBackend(self) /\ fail # 1
                         THEN Some(Redis_dbsize(b, t)) ELSE None]

(***************************************************************************)
(* XSD documents.  An xs:element is a record of the attributes and inline  *)
(* children the parser reads: name, ref, type, minOccurs, maxOccurs (the   *)
(* attribute text, or None), simpleType and complexType (the inline child, *)
(* or None).  An xs:complexType is [sequence, choice, all, complexContent]:*)
(* its own model groups (or None) and, under complexContent, the           *)
(* xs:extension with its base and the members declared inside it.  A       *)
(* schema is [elements, complexTypes, simpleTypes]: the top-level          *)
(* xs:element list in document order and the named types.                  *)
(***************************************************************************)
El(name, type) ==
    [name |-> Some(name), ref |-> None, type |-> type, minOccurs |-> None,
     maxOccurs |-> None, simpleType |-> None, complexType |-> None]

RefTo(name) ==
    [name |-> None, ref |-> Some(name), type |-> None, minOccurs |-> None,
     maxOccurs |-> None, simpleType |-> None, complexType |-> None]

Group(sequence, choice, all) ==
    [sequence |-> sequence, choice |-> choice, all |-> all, complexContent |-> None]

SequenceOf(members) == Group(Some(members), None, None)

Extends(base, members) ==
    [sequence |-> None, choice |-> None, all |-> None,
     complexContent |-> Some([extension |-> Some([base |-> Some(base), sequence |-> members])])]

Holding(name, complexType) == [El(name, None) EXCEPT !.complexType = Some(complexType)]

(***************************************************************************)
(* Module-level helpers of xsd_parser.py.                                  *)
(***************************************************************************)
\* str.isdigit() and int() on the attribute texts the schemas use.
DigitStrings == {"0", "1", "2", "3", "4", "9", "10"}
IntOfDigits(s) ==
    CASE s = "0" -> 0 [] s = "1" -> 1 [] s = "2" -> 2 [] s = "3" -> 3
      [] s = "4" -> 4 [] s = "9" -> 9 [] s = "10" -> 10

parse_occurs(value) ==
    IF IsNone(value) THEN Some(1)
    ELSE IF The(value) \in DigitStrings THEN Some(IntOfDigits(The(value)))
    ELSE None

\* value.split(":", 1)[1] on the prefixed names the schemas use.
local_name(value) ==
    IF IsNone(value) THEN None
    ELSE CASE The(value) = "xs:string" -> Some("string")
           [] The(value) = "xs:integer" -> Some("integer")
           [] OTHER -> value

(***************************************************************************)
(* RuleNode                                                                *)
(***************************************************************************)
RuleNode(xpath, name, kind) ==
    [xpath |-> xpath, name |-> name, kind |-> kind, data_type |-> None,
     min_occurs |-> None, max_occurs |-> None, repeatable |-> FALSE,
     enum_values |-> <<>>, description |-> None, validations |-> <<>>,
     notes |-> <<>>, children |-> <<>>]

DepthLimitName == "[depth_limit_reached]"

HasNote(node, tag) == \E i \in 1..Len(node.notes) : node.notes[i][1] = tag

(***************************************************************************)
(* XSDParser.  self is [schema, config, reference_cache]; the indexes of   *)
(* __init__ are recomputed from the schema where they are read.            *)
(***************************************************************************)
XSDParser_simple_types(self) ==
    [n \in DOMAIN self.schema.simpleTypes |->
        [base |-> local_name(self.schema.simpleTypes[n].base),
         enumerations |-> self.schema.simpleTypes[n].enumerations]]
XSDParser_complex_types(self) == self.schema.complexTypes

RECURSIVE XSDParser_get_extension_chain(_, _, _)
XSDParser_get_extension_chain(self, type_name, visited) ==
    LET type_elem == XSDParser_complex_types(self)[type_name]
        cc == type_elem.complexContent
        ext == IF IsNone(cc) THEN None ELSE The(cc).extension
        base == IF IsNone(ext) THEN None ELSE The(ext).base
        base_name == local_name(base)
    IN  IF type_name \in visited THEN <<>>
        ELSE IF ~IsNone(base) /\ The(base) # "" /\ The(base_name) \in DOMAIN XSDParser_complex_types(self)
             THEN <<The(base_name)>> \o
                  XSDParser_get_extension_chain(self, The(base_name), visited \cup {type_name})
             ELSE <<>>

\* self.extension_chains.get(type_name, []): the index holds a type only
\* when track_extension_metadata is set and its chain is not empty.
XSDParser_extension_chains(self, type_name) ==
    IF self.config.track_extension_metadata /\ type_name \in DOMAIN XSDParser_complex_types(self)
    THEN XSDParser_get_extension_chain(self, type_name, {})
    ELSE <<>>

RECURSIVE FindFrom(_, _, _)
FindFrom(elements, name, i) ==
    IF i > Len(elements) THEN None
    ELSE IF elements[i].name = Some(name) THEN Some(elements[i])
    ELSE FindFrom(elements, name, i + 1)

XSDParser_find_element(self, name) == FindFrom(self.schema.elements, name, 1)

XSDParser_is_complex_type(self, type_name) ==
    IF IsNone(type_name) \/ The(type_name) = "" THEN FALSE
    ELSE The(local_name(type_name)) \in DOMAIN XSDParser_complex_types(self)

RECURSIVE CollectFrom(_, _, _)
CollectFrom(self, current, seen) ==
    IF IsNone(current) \/ The(current) = "" THEN <<>>
    ELSE IF The(current) \in seen THEN <<>>
    ELSE IF The(current) \notin DOMAIN XSDParser_simple_types(self) THEN <<>>
    ELSE LET simple == XSDParser_simple_types(self)[The(current)]
         IN  simple.enumerations \o CollectFrom(self, simple.base, seen \cup {The(current)})

XSDParser_collect_enum_values(self, type_name) == CollectFrom(self, local_name(type_name), {})

XSDParser_resolve_type(self, type_name) ==
    IF IsNone(type_name) \/ The(type_name) = ""
    THEN [data_type |-> "string", enums |-> <<>>]
    ELSE LET ln == local_name(type_name)
             local_type == IF The(ln) = "" THEN "string" ELSE The(ln)
             known == local_type \in DOMAIN XSDParser_simple_types(self)
             base == IF known THEN XSDParser_simple_types(self)[local_type].base ELSE None
         IN  [data_type |-> IF ~IsNone(base) /\ The(base) # "" THEN The(base) ELSE local_type,
              enums |-> XSDParser_collect_enum_values(self, Some(local_type))]

\* An inline xs:simpleType is [restriction |-> None or Some([base, enumerations])].
XSDParser_parse_inline_simple_type(self, node) ==
    IF IsNone(node.restriction) THEN [data_type |-> "string", enums |-> <<>>]
    ELSE LET restriction == The(node.restriction)
             base_local == local_name(restriction.base)
             base == IF IsNone(base_local) \/ The(base_local) = "" THEN "string" ELSE The(base_local)
         IN  [data_type |-> base,
              enums |-> IF restriction.enumerations = <<>>
                        THEN XSDParser_collect_enum_values(self, Some(base))
                        ELSE restriction.enumerations]

\* ET.tostring / ET.fromstring of an element of the subset above.
ET_tostring(element) == <<"xml", element>>
ET_fromstring(xml) == xml[2]

XSDParser_init(schema, config) ==
    [schema |-> schema, config |-> config,
     reference_cache |-> IF config.cache_resolved_refs THEN Some(EmptyDict) ELSE None]

XSDParser_resolve_reference(self, element, st) ==
    LET ref == element.ref
        referenced_name == local_name(ref)
        plain == [element |-> element, ref_name |-> None, added |-> FALSE, st |-> st]
    IN  IF IsNone(ref) \/ The(ref) = "" THEN plain
        ELSE IF The(referenced_name) = "" THEN plain
        ELSE LET rn == The(referenced_name)
                 referenced_element == XSDParser_find_element(self, rn)
                 st1 == [st EXCEPT !.ref_chain = @ \cup {rn}]
                 cached == ~IsNone(st.reference_cache) /\ rn \in DOMAIN The(st.reference_cache)
                 resolved == [The(referenced_element) EXCEPT !.ref = None]
                 st2 == IF IsNone(st1.reference_cache) THEN st1
                        ELSE [st1 EXCEPT !.reference_cache =
                                 Some(DictSet(The(@), rn, ET_tostring(resolved)))]
                 overridden ==
                     [resolved EXCEPT
                        !.minOccurs = IF IsNone(element.minOccurs) THEN @ ELSE element.minOccurs,
                        !.maxOccurs = IF IsNone(element.maxOccurs) THEN @ ELSE element.maxOccurs]
             IN  IF rn \in st.ref_chain
                 THEN [element |-> [element EXCEPT !.name = Some(rn), !.ref = None,
                                                   !.simpleType = None, !.complexType = None],
                       ref_name |-> Some(rn), added |-> FALSE, st |-> st]
                 ELSE IF IsNone(referenced_element)
                 THEN [element |-> element, ref_name |-> Some(rn), added |-> FALSE, st |-> st]
                 ELSE IF cached
                 THEN [element |-> [ET_fromstring(The(st.reference_cache)[rn]) EXCEPT !.ref = None],
                       ref_name |-> Some(rn), added |-> FALSE, st |-> st1]
                 ELSE [element |-> [ET_fromstring(ET_tostring(overridden)) EXCEPT !.ref = None],
                       ref_name |-> Some(rn), added |-> TRUE, st |-> st2]

\* The guard that opens _build_node.
DepthExceeded_Mut(self, depth) == depth > self.config.max_recursion_depth + 1

DepthExceeded(self, depth) == depth > self.config.max_recursion_depth

DepthLimitNode(self, parent_xpath) ==
    [RuleNode(Append(parent_xpath, "..."), DepthLimitName, "section") EXCEPT
        !.notes = << <<"max_depth_exceeded", self.config.max_recursion_depth>> >>,
        !.description = Some(<<"Maximum recursion depth exceeded",
                               self.config.max_recursion_depth>>)]

\* The (element, kind) pairs _parse_complex_content walks, in its order:
\* the members of the type's own sequence, then choice, then all.
ContainerItems(node) ==
    LET Of(container, kind) ==
            IF IsNone(container) THEN <<>>
            ELSE [i \in 1..Len(The(container)) |-> [child |-> The(container)[i], kind |-> kind]]
    IN  Of(node.sequence, "sequence") \o Of(node.choice, "choice") \o Of(node.all, "sequence")

RECURSIVE XSDParser_build_node(_, _, _, _, _, _)
RECURSIVE BuildChildren(_, _, _, _, _, _, _, _)

XSDParser_parse_complex_content(self, node, parent_xpath, st, depth, extension_depth) ==
    IF IsNone(node) THEN [children |-> <<>>, st |-> st, raised |-> FALSE]
    ELSE BuildChildren(self, ContainerItems(The(node)), 1, parent_xpath, st, depth,
                       extension_depth, <<>>)

BuildChildren(self, items, i, parent_xpath, st, depth, extension_depth, children) ==
    IF i > Len(items) THEN [children |-> children, st |-> st, raised |-> FALSE]
    ELSE Bind(XSDParser_build_node(self, items[i].child, parent_xpath, st, depth,
                                   extension_depth),
              LAMBDA built :
                LET child_node == IF items[i].kind = "choice"
                                  THEN [built.node EXCEPT !.notes = Append(@, <<"choice">>)]
                                  ELSE built.node
                    seen == \E j \in 1..Len(children) : children[j] = child_node
                IN  IF built.raised
                    THEN [children |-> children, st |-> built.st, raised |-> TRUE]
                    ELSE BuildChildren(self, items, i + 1, parent_xpath, built.st, depth,
                                       extension_depth,
                                       IF seen THEN children
                                       ELSE Append(children, child_node)))

XSDParser_build_node(self, element0, parent_xpath, st0, depth, extension_depth) ==
    IF DepthExceeded(self, depth)
    THEN [node |-> DepthLimitNode(self, parent_xpath), st |-> st0, raised |-> FALSE]
    ELSE
    Bind(XSDParser_resolve_reference(self, element0, st0), LAMBDA rr :
    LET element == rr.element
        ref_name == rr.ref_name
        name == element.name
    IN  IF IsNone(name) \/ The(name) = ""
        THEN [node |-> None, st |-> rr.st, raised |-> TRUE]
        ELSE
        LET xpath == Append(parent_xpath, The(name))
            st1 == [rr.st EXCEPT !.visited = @ \cup {xpath}]
            Release(st) ==
                [st EXCEPT !.visited = @ \ {xpath},
                           !.ref_chain = IF ~IsNone(ref_name) /\ rr.added
                                         THEN @ \ {The(ref_name)} ELSE @]
            min_occurs == parse_occurs(element.minOccurs)
            raw_max_occurs == IF IsNone(element.maxOccurs) THEN "1" ELSE The(element.maxOccurs)
            repeatable == \/ raw_max_occurs = "unbounded"
                          \/ /\ raw_max_occurs \in DigitStrings
                             /\ IntOfDigits(raw_max_occurs) > 1
            simple_type == element.simpleType
            complex_type == element.complexType
            element_type == element.type
            typed == ~IsNone(element_type) /\ The(element_type) # ""
            type_local == The(local_name(element_type))
            chain == XSDParser_extension_chains(self, type_local)
            chained == typed /\ self.config.track_extension_metadata /\ chain # <<>>
            new_extension_depth == extension_depth + Len(chain)
            Occurring(node) == [node EXCEPT !.min_occurs = min_occurs,
                                            !.max_occurs = Some(raw_max_occurs),
                                            !.repeatable = repeatable]
            extension_notes ==
                << <<"extension_point">> >> \o
                (IF self.config.track_extension_metadata
                 THEN << <<"allows_custom_data">> >> \o
                      (IF extension_depth > 0
                       THEN << <<"extension_depth", extension_depth>> >> ELSE <<>>)
                 ELSE <<>>)
            truncated_chain == IF Len(chain) > 2 THEN SubSeq(chain, 1, 2) ELSE chain
            inline == XSDParser_parse_inline_simple_type(self, The(simple_type))
            named == XSDParser_resolve_type(self, element_type)
            ct_element == IF ~IsNone(complex_type) THEN complex_type
                          ELSE IF typed /\ type_local # ""
                                  /\ type_local \in DOMAIN XSDParser_complex_types(self)
                               THEN Some(XSDParser_complex_types(self)[type_local])
                               ELSE None
        IN  IF xpath \in rr.st.visited
            THEN [node |-> [RuleNode(xpath, The(name), "section") EXCEPT
                              !.notes = << <<"recursive_reference">> >>],
                  st |-> rr.st, raised |-> FALSE]
            ELSE IF \/ The(name) = "extension"
                    \/ ref_name = Some("extension") /\ ~self.config.resolve_extension_refs
            THEN [node |-> [Occurring(RuleNode(xpath, The(name), "section")) EXCEPT
                              !.notes = extension_notes,
                              !.description = Some(<<"Extension point for custom data">>)],
                  st |-> Release(st1), raised |-> FALSE]
            ELSE IF chained /\ new_extension_depth > self.config.max_extension_depth
            THEN [node |-> [Occurring(RuleNode(xpath, The(name), "section")) EXCEPT
                              !.notes = << <<"extension_chain_truncated">>,
                                           <<"inherits_from_types", Len(chain)>>,
                                           <<"base_types", truncated_chain>> >>,
                              !.description = Some(<<"Complex type with inheritance (truncated)",
                                                     Len(chain),
                                                     self.config.max_extension_depth>>)],
                  st |-> Release(st1), raised |-> FALSE]
            ELSE IF ~IsNone(simple_type)
            THEN [node |-> [Occurring(RuleNode(xpath, The(name), "field")) EXCEPT
                              !.data_type = Some(inline.data_type),
                              !.enum_values = inline.enums],
                  st |-> Release(st1), raised |-> FALSE]
            ELSE IF ~IsNone(complex_type) \/ XSDParser_is_complex_type(self, element_type)
            THEN Bind(XSDParser_parse_complex_content(
                          self, ct_element, xpath, st1, depth + 1,
                          IF chained THEN new_extension_depth ELSE extension_depth),
                      LAMBDA content :
                        IF content.raised
                        THEN [node |-> None, st |-> content.st, raised |-> TRUE]
                        ELSE [node |-> [Occurring(RuleNode(xpath, The(name), "section"))
                                           EXCEPT !.children = content.children],
                              st |-> Release(content.st), raised |-> FALSE])
            ELSE [node |-> [Occurring(RuleNode(xpath, The(name), "field")) EXCEPT
                              !.data_type = Some(named.data_type),
                              !.enum_values = named.enums],
                  st |-> Release(st1), raised |-> FALSE])

\* parse(root_name): [raised, node, self], self carrying the reference cache
\* the call leaves behind; ref_chain is the guard set as the root's build
\* returned it.
XSDParser_parse(self, root_name) ==
    LET element == XSDParser_find_element(self, root_name)
        st0 == [visited |-> {}, ref_chain |-> {}, reference_cache |-> self.reference_cache]
    IN  IF IsNone(element)
        THEN [raised |-> TRUE, error |-> "not found", node |-> None, self |-> self,
              ref_chain |-> st0.ref_chain]
        ELSE Bind(XSDParser_build_node(self, The(element), <<>>, st0, 0, 0),
                  LAMBDA built :
                    [raised |-> built.raised,
                     error |-> IF built.raised THEN "anonymous element" ELSE "",
                     node |-> IF built.raised THEN None ELSE Some(built.node),
                     self |-> [self EXCEPT !.reference_cache = built.st.reference_cache],
                     ref_chain |-> built.st.ref_chain])

(***************************************************************************)
(* The environment: the clock advances, files are rewritten or deleted.    *)
(***************************************************************************)
FsInit == [f \in Files |-> [exists |-> TRUE, mtime |-> 1, content |-> "c1"]]

Tick ==
    /\ now < MaxTime
    /\ now' = now + 1
    /\ ret' = [op |-> "tick"]
    /\ UNCHANGED <<fs, sc, lastSet, distVars, beyondCache>>

WriteFile(f, c) ==
    /\ fs' = [fs EXCEPT ![f] = [exists |-> TRUE, mtime |-> now, content |-> c]]
    /\ ret' = [op |-> "write", file |-> f]
    /\ UNCHANGED <<now, sc, lastSet, distVars, beyondCache>>

DeleteFile(f) ==
    /\ fs[f].exists
    /\ fs' = [fs EXCEPT ![f].exists = FALSE]
    /\ ret' = [op |-> "delete", file |-> f]
    /\ UNCHANGED <<now, sc, lastSet, distVars, beyondCache>>

(***************************************************************************)
(* SpecLocal: a client calling the local cache.                            *)
(***************************************************************************)
NoHistory == [k \in Keys |-> None]

\* The construction environment of a DistributedCache: an explicit client,
\* HPXML_FORCE_FAKEREDIS, which libraries import, whether the server answers.
Envs == [redis_client : BOOLEAN, force_fake : BOOLEAN, have_redis : BOOLEAN,
         have_fakeredis : BOOLEAN, ping_ok : BOOLEAN]

NoBackendEnv == [redis_client |-> FALSE, force_fake |-> FALSE, have_redis |-> FALSE,
                 have_fakeredis |-> FALSE, ping_ok |-> FALSE]

\* What the environment saw of a construction: was a connection to the
\* configured server attempted and did it fail; was fakeredis forced.
BootOf(env) ==
    LET forced == ~env.redis_client /\ env.force_fake /\ env.have_fakeredis
        attempted == ~env.redis_client /\ ~env.force_fake /\ env.have_redis
    IN  [connect_failed |-> attempted /\ ~env.ping_ok, forced_fake |-> forced,
         forced_absent |-> ~env.redis_client /\ env.force_fake /\ ~env.have_fakeredis]

\* Data another application keeps in the same Redis database.
ForeignKey == <<"other:", "data">>
BackendInit == [rk \in {ForeignKey} |-> [blob |-> "foreign", set_at |-> 1, ttl |-> MaxTime]]

FacadeIdle == fc = [cache |-> "local", parser_config |-> "default"]

ParserIdle == px = None

RulesIdle == rt = None

RegistryIdle == vm = [packaging |-> FALSE, versions |-> <<>>, parsers |-> <<>>, made |-> 0]

ThreadsIdle == th = <<>>

BeyondIdle == RulesIdle /\ RegistryIdle /\ ThreadsIdle

DistIdle ==
    /\ dc = DistributedCache_init(DefaultTtl, NoBackendEnv)
    /\ backend = BackendInit
    /\ down = FALSE
    /\ boot = BootOf(NoBackendEnv)

InitLocal ==
    /\ now = 1
    /\ fs = FsInit
    /\ sc = SchemaCache_init(DefaultTtl)
    /\ lastSet = NoHistory
    /\ ret = [op |-> "init"]
    /\ DistIdle
    /\ FacadeIdle
    /\ ParserIdle
    /\ BeyondIdle

LocalGet(k) ==
    LET r == SchemaCache_get(sc, k, now)
    IN  /\ sc' = r.self
        /\ ret' = [op |-> "get", key |-> k, val |-> r.val]
        /\ UNCHANGED <<now, fs, lastSet, distVars, beyondCache>>

LocalSet(k, v, ttl, fp) ==
    LET r == SchemaCache_set(sc, k, v, ttl, fp, now, fs)
    IN  /\ sc' = r.self
        /\ lastSet' = [lastSet EXCEPT ![k] =
              Some([data |-> v, at |-> now, ttl |-> ttl, file |-> fp,
                    mtime |-> IF ~IsNone(fp) /\ fs[The(fp)].exists
                              THEN fs[The(fp)].mtime ELSE 0])]
        /\ ret' = [op |-> "set", key |-> k]
        /\ UNCHANGED <<now, fs, distVars, beyondCache>>

LocalInvalidate(k) ==
    /\ sc' = SchemaCache_invalidate(sc, k).self
    /\ lastSet' = [lastSet EXCEPT ![k] = None]
    /\ ret' = [op |-> "invalidate", key |-> k]
    /\ UNCHANGED <<now, fs, distVars, beyondCache>>

LocalClear ==
    /\ sc' = SchemaCache_clear(sc).self
    /\ lastSet' = NoHistory
    /\ ret' = [op |-> "clear"]
    /\ UNCHANGED <<now, fs, distVars, beyondCache>>

LocalCheck(k, f) ==
    /\ ret' = [op |-> "check", key |-> k, file |-> f,
               val |-> SchemaCache_check_file_staleness(sc, k, f, fs)]
    /\ UNCHANGED <<now, fs, sc, lastSet, distVars, beyondCache>>

NextLocal ==
    \/ Tick
    \/ \E k \in Keys : LocalGet(k)
    \/ \E k \in Keys, v \in Values, ttl \in TtlArgs, fp \in FileArgs : LocalSet(k, v, ttl, fp)
    \/ \E k \in Keys : LocalInvalidate(k)
    \/ LocalClear
    \/ \E k \in Keys, f \in Files : LocalCheck(k, f)

SpecLocal == InitLocal /\ [][NextLocal]_vars

(***************************************************************************)
(* SpecStale: the local cache beside a file that is rewritten and deleted. *)
(* One value and the default or a one-tick TTL are enough here: the        *)
(* staleness check reads neither.                                          *)
(***************************************************************************)
StaleTtlArgs == {None, Some(1)}

NextStale ==
    \/ Tick
    \/ \E f \in Files, c \in Contents : WriteFile(f, c)
    \/ \E f \in Files : DeleteFile(f)
    \/ \E k \in Keys : LocalGet(k)
    \/ \E k \in Keys, ttl \in StaleTtlArgs, fp \in FileArgs : LocalSet(k, "v1", ttl, fp)
    \/ \E k \in Keys : LocalInvalidate(k)
    \/ LocalClear
    \/ \E k \in Keys, f \in Files : LocalCheck(k, f)

SpecStale == InitLocal /\ [][NextStale]_vars

(***************************************************************************)
(* C3.  get(k) returns the value of the most recent set(k, v) when that    *)
(* set has not been followed by invalidate(k) or clear() and its TTL (the  *)
(* one passed to set, or the default when none was passed) has not         *)
(* elapsed; otherwise get(k) misses and leaves no entry under k.           *)
(***************************************************************************)
ClaimedTtl(h) == IF IsNone(h.ttl) THEN sc.default_ttl ELSE The(h.ttl)

GetAsClaimed(k) ==
    LET h == lastSet[k]
    IN  IF ~IsNone(h) /\ ~(now - The(h).at > ClaimedTtl(The(h)))
        THEN ret.val = Some(The(h).data)
        ELSE ret.val = None /\ k \notin DOMAIN sc.cache

C3_GetReturnsLatestLiveSet == ret.op = "get" => GetAsClaimed(ret.key)

\* C3, restricted to sets whose ttl argument is not 0: the part of the claim
\* that the code keeps.
C3_GetReturnsLatestLiveSet_NonZeroTtl ==
    (ret.op = "get" /\ \A k \in Keys : IsNone(lastSet[k]) \/ The(lastSet[k]).ttl # Some(0))
        => GetAsClaimed(ret.key)

(***************************************************************************)
(* C4.  check_file_staleness(k, f) is true exactly when no entry is stored *)
(* under k or the current modification time of f is newer than the one     *)
(* recorded when the entry was set, whether or not the TTL has elapsed.    *)
(* (As amended: or f does not exist.)                                      *)
(***************************************************************************)
RecordedMtime(k) == The(lastSet[k]).mtime

\* The claim as written: a file that is gone has no newer modification time.
C4_StaleIffAbsentOrNewer ==
    ret.op = "check" =>
        (ret.val <=> (\/ ret.key \notin DOMAIN sc.cache
                      \/ (fs[ret.file].exists /\ fs[ret.file].mtime > RecordedMtime(ret.key))))

\* C4 as amended: ... or f does not exist.
C4_StaleIffAbsentOrNewerOrGone ==
    ret.op = "check" =>
        /\ ret.val <=> (\/ ret.key \notin DOMAIN sc.cache
                        \/ ~fs[ret.file].exists
                        \/ fs[ret.file].mtime > RecordedMtime(ret.key))
        /\ (/\ ret.key \in DOMAIN sc.cache
            /\ The(lastSet[ret.key]).file = Some(ret.file)
            /\ fs[ret.file].exists
            /\ fs[ret.file].mtime = RecordedMtime(ret.key)) => ~ret.val

\* A check that answers "fresh" for an entry whose TTL has elapsed.
C4_Witness ==
    /\ ret.op = "check"
    /\ ~ret.val
    /\ ret.key \in DOMAIN sc.cache
    /\ CacheEntry_is_expired(sc.cache[ret.key], now)
    /\ The(lastSet[ret.key]).file = Some(ret.file)

(***************************************************************************)
(* SpecDist: a client calling a DistributedCache whose backend calls may   *)
(* raise.                                                                  *)
(***************************************************************************)
InitDist ==
    /\ now = 1
    /\ fs = FsInit
    /\ sc = SchemaCache_init(DefaultTtl)
    /\ lastSet = NoHistory
    /\ ret = [op |-> "init"]
    /\ backend = BackendInit
    /\ down = FALSE
    /\ FacadeIdle
    /\ ParserIdle
    /\ BeyondIdle
    /\ \E env \in Envs :
          /\ dc = DistributedCache_init(DefaultTtl, env)
          /\ boot = BootOf(env)

DistRet(op, k, r) ==
    [op |-> op, key |-> k, val |-> r.val, contacted |-> r.contacted,
     failed |-> r.failed, raised |-> r.raised, wasDown |-> down]

DistGet(k, fail) ==
    LET r == DistributedCache_get(dc, k, now, backend, fail)
    IN  /\ dc' = r.self
        /\ backend' = r.backend
        /\ down' = (down \/ r.failed)
        /\ ret' = DistRet("get", k, r)
        /\ UNCHANGED <<now, fs, sc, lastSet, boot, beyondCache>>

DistSet(k, v, ttl, fp, fail) ==
    LET r == DistributedCache_set(dc, k, v, ttl, fp, now, fs, backend, fail)
    IN  /\ dc' = r.self
        /\ backend' = r.backend
        /\ down' = (down \/ r.failed)
        /\ lastSet' = [lastSet EXCEPT ![k] =
              Some([data |-> v, at |-> now, ttl |-> ttl, file |-> fp,
                    mtime |-> IF ~IsNone(fp) /\ fs[The(fp)].exists
                              THEN fs[The(fp)].mtime ELSE 0])]
        /\ ret' = DistRet("set", k, r)
        /\ UNCHANGED <<now, fs, sc, boot, beyondCache>>

DistInvalidate(k, fail) ==
    LET r == DistributedCache_invalidate(dc, k, backend, fail)
    IN  /\ dc' = r.self
        /\ backend' = r.backend
        /\ lastSet' = [lastSet EXCEPT ![k] = None]
        /\ ret' = DistRet("invalidate", k, r)
        /\ UNCHANGED <<now, fs, sc, down, boot, beyondCache>>

DistClear(fail) ==
    LET r == DistributedCache_clear(dc, backend, fail)
    IN  /\ dc' = r.self
        /\ backend' = r.backend
        /\ lastSet' = NoHistory
        /\ ret' = DistRet("clear", None, r)
        /\ UNCHANGED <<now, fs, sc, down, boot, beyondCache>>

DistCheck(k, f, fail) ==
    LET r == DistributedCache_check_file_staleness(dc, k, f, now, fs, backend, fail)
    IN  /\ dc' = r.self
        /\ backend' = r.backend
        /\ ret' = DistRet("check", k, r)
        /\ UNCHANGED <<now, fs, sc, lastSet, down, boot, beyondCache>>

DistStats(fail) ==
    /\ ret' = [op |-> "stats", val |-> DistributedCache_get_cache_stats(dc, now, backend, fail)]
    /\ UNCHANGED <<now, fs, sc, lastSet, distVars, beyondCache>>

\* One key is enough to follow a value through the backend, its mirror and
\* the fallback cache.
DistKeys == {<<"k1">>}

NextDist ==
    \/ Tick
    \/ \E k \in DistKeys, fail \in 0..1 : DistGet(k, fail)
    \/ \E k \in DistKeys, fp \in FileArgs, fail \in 0..2 :
          DistSet(k, "v1", None, fp, fail)
    \/ \E k \in DistKeys, fail \in 0..2 : DistInvalidate(k, fail)
    \/ \E fail \in 0..1 : DistClear(fail)
    \/ \E k \in DistKeys, f \in Files, fail \in 0..1 : DistCheck(k, f, fail)
    \/ \E fail \in 0..1 : DistStats(fail)

SpecDist == InitDist /\ [][NextDist]_vars

(***************************************************************************)
(* SpecTwin: the same calls made to a SchemaCache and to a                 *)
(* DistributedCache that found no backend when it was constructed.         *)
(***************************************************************************)
InitTwin ==
    /\ now = 1
    /\ fs = FsInit
    /\ sc = SchemaCache_init(DefaultTtl)
    /\ lastSet = NoHistory
    /\ ret = [op |-> "init"]
    /\ backend = BackendInit
    /\ down = FALSE
    /\ FacadeIdle
    /\ ParserIdle
    /\ BeyondIdle
    /\ \E env \in Envs :
          /\ ~UsesBackend(DistributedCache_init(DefaultTtl, env))
          /\ dc = DistributedCache_init(DefaultTtl, env)
          /\ boot = BootOf(env)

TwinApply(op, k, d, l) ==
    /\ dc' = d.self
    /\ backend' = d.backend
    /\ sc' = l.self
    /\ ret' = [op |-> op, key |-> k, val |-> d.val, twin |-> l.val, contacted |-> d.contacted]
    /\ UNCHANGED <<now, fs, lastSet, down, boot, beyondCache>>

TwinGet(k) ==
    TwinApply("get", k, DistributedCache_get(dc, k, now, backend, 0),
              SchemaCache_get(sc, k, now))

TwinSet(k, v, ttl, fp) ==
    TwinApply("set", k, DistributedCache_set(dc, k, v, ttl, fp, now, fs, backend, 0),
              SchemaCache_set(sc, k, v, ttl, fp, now, fs))

TwinInvalidate(k) ==
    TwinApply("invalidate", k, DistributedCache_invalidate(dc, k, backend, 0),
              SchemaCache_invalidate(sc, k))

TwinClear ==
    TwinApply("clear", None, DistributedCache_clear(dc, backend, 0), SchemaCache_clear(sc))

TwinCheck(k, f) ==
    TwinApply("check", k, DistributedCache_check_file_staleness(dc, k, f, now, fs, backend, 0),
              [self |-> sc, val |-> SchemaCache_check_file_staleness(sc, k, f, fs)])

NextTwin ==
    \/ Tick
    \/ \E f \in Files, c \in Contents : WriteFile(f, c)
    \/ \E k \in Keys : TwinGet(k)
    \/ \E k \in Keys, ttl \in StaleTtlArgs, fp \in FileArgs : TwinSet(k, "v1", ttl, fp)
    \/ \E k \in Keys : TwinInvalidate(k)
    \/ TwinClear
    \/ \E k \in Keys, f \in Files : TwinCheck(k, f)

SpecTwin == InitTwin /\ [][NextTwin]_vars

(***************************************************************************)
(* C5.  A DistributedCache whose backend is unavailable returns, for every *)
(* sequence of set, get, invalidate, clear and check_file_staleness calls, *)
(* what a SchemaCache returns for the same sequence; in particular         *)
(* check_file_staleness(k, f) is false after set(k, v, f) with f           *)
(* unmodified.                                                             *)
(***************************************************************************)
C5_UnavailableBackendBehavesLikeLocal ==
    ret.op \in {"get", "set", "invalidate", "clear", "check"} => ret.val = ret.twin

\* C5 without check_file_staleness: the calls on which the two caches agree.
C5_AgreesOnGetSetInvalidateClear ==
    ret.op \in {"get", "set", "invalidate", "clear"} => ret.val = ret.twin

(***************************************************************************)
(* C6.  When the connection attempt fails at construction: no substitute   *)
(* backend is selected, the backend is marked unavailable, every later     *)
(* set/get goes through the embedded local cache without raising and a     *)
(* get returns what the latest set stored, and get_cache_stats reports     *)
(* the backend unavailable together with the embedded cache's stats.       *)
(***************************************************************************)
FallbackHolds(k, v) ==
    /\ k \in DOMAIN dc.fallback_cache.cache
    /\ dc.fallback_cache.cache[k].data = v

C6_ConnectFailureFallsBackToLocal ==
    boot.connect_failed =>
        /\ dc.redis = "None"
        /\ ~dc.redis_available
        /\ ret.op \in {"get", "set"} => (~ret.raised /\ ~ret.contacted)
        /\ ret.op = "set" => FallbackHolds(ret.key, The(lastSet[ret.key]).data)
        /\ (/\ ret.op = "get"
            /\ ~IsNone(lastSet[ret.key])
            /\ now - The(lastSet[ret.key]).at <= dc.default_ttl)
              => ret.val = Some(The(lastSet[ret.key]).data)
        /\ ret.op = "stats" =>
              /\ ~ret.val.redis_available
              /\ IsNone(ret.val.redis_key_count)
              /\ ret.val.fallback_stats.cache_size = Cardinality(DOMAIN dc.fallback_cache.cache)

\* A get, after a failed connection attempt, that returns the value set before.
C6_Witness ==
    /\ boot.connect_failed
    /\ ret.op = "get"
    /\ ret.val = Some("v1")
    /\ now > 1

(***************************************************************************)
(* C7.  When a backend call made by get or set raises, the call completes  *)
(* through the embedded local cache without raising, the availability flag *)
(* becomes false, and from then on it stays false and no get or set        *)
(* contacts the backend.                                                   *)
(***************************************************************************)
C7_RuntimeFailureIsDurable ==
    /\ down => ~dc.redis_available
    /\ (ret.op \in {"get", "set"} /\ ret.wasDown) => ~ret.contacted
    /\ (ret.op \in {"get", "set"} /\ ret.failed) =>
          /\ ~ret.raised
          /\ ~dc.redis_available
    /\ (ret.op = "set" /\ ret.failed) => FallbackHolds(ret.key, The(lastSet[ret.key]).data)
    /\ (ret.op = "get" /\ ret.failed) =>
          ret.val = IF ret.key \in DOMAIN dc.fallback_cache.cache
                    THEN Some(dc.fallback_cache.cache[ret.key].data) ELSE None

\* A get, after a set whose backend call raised, served by the fallback cache.
C7_Witness ==
    /\ down
    /\ ret.op = "get"
    /\ ret.wasDown
    /\ ~ret.contacted
    /\ ret.val = Some("v1")
    /\ dc.redis # "None"


(***************************************************************************)
(* Schema documents.  A document is named by its content; ET_parse turns   *)
(* the content into the element tree the parser walks.                     *)
(***************************************************************************)
TypeNames == <<"T0", "T1", "T2", "T3", "T4">>
DerivedNames == <<"E1", "E2", "E3", "E4">>

Unbounded(element) == [element EXCEPT !.minOccurs = Some("0"), !.maxOccurs = Some("unbounded")]

NoTypes == [n \in {} |-> n]

\* Sections, fields, a named enumeration, an inline restriction, a choice,
\* occurrence attributes, and a field whose type is declared nowhere.
PlainSchema ==
    [elements |-> <<
        Holding("Root", Group(
            Some(<< Holding("Section", SequenceOf(<<
                        El("Leaf", Some("xs:string")),
                        El("Kind", Some("KindType")),
                        [El("Code", None) EXCEPT !.simpleType =
                            Some([restriction |-> Some([base |-> Some("xs:integer"),
                                                        enumerations |-> <<"1", "2">>])])] >>)),
                    Unbounded(El("Item", Some("xs:integer"))),
                    El("Odd", Some("NoSuchType")) >>),
            Some(<< El("Either", Some("xs:string")), El("Or", None) >>),
            None)) >>,
     complexTypes |-> NoTypes,
     simpleTypes |-> [n \in {"KindType"} |->
                        [base |-> Some("xs:string"), enumerations |-> <<"a", "b">>]]]

\* Element references: the same target referenced three times, with and
\* without occurrence attributes, and the custom-data "extension" element.
RefsSchema ==
    [elements |-> <<
        Holding("Root", SequenceOf(<<
            RefTo("Shared"),
            Unbounded(RefTo("Shared")),
            RefTo("Shared"),
            RefTo("extension") >>)),
        Holding("Shared", SequenceOf(<< El("Leaf", Some("xs:string")) >>)),
        Holding("extension", SequenceOf(<< El("Custom", Some("xs:string")) >>)) >>,
     complexTypes |-> NoTypes,
     simpleTypes |-> NoTypes]

\* A reference whose target is declared nowhere.
DanglingSchema ==
    [elements |-> <<
        Holding("Root", SequenceOf(<<
            El("Leaf", Some("xs:string")),
            RefTo("Missing") >>)) >>,
     complexTypes |-> NoTypes,
     simpleTypes |-> NoTypes]

\* Cycles: a type whose member has that type, and an element that
\* references itself.
CycleSchema ==
    [elements |-> <<
        Holding("Root", SequenceOf(<<
            El("Child", Some("Tree")),
            RefTo("Loop") >>)),
        Holding("Loop", SequenceOf(<< RefTo("Loop") >>)) >>,
     complexTypes |-> [n \in {"Tree"} |->
                         SequenceOf(<< El("Child", Some("Tree")),
                                       El("Leaf", Some("xs:string")) >>)],
     simpleTypes |-> NoTypes]

\* Inheritance: T0 declares a member; T(i) extends T(i-1) and declares one
\* more inside its xs:extension.  Root holds one element of each type.
ChainSchema ==
    [elements |-> <<
        Holding("Root", SequenceOf(
            << El("Base", Some(TypeNames[1])) >> \o
            [i \in 1..MaxChain |-> El(DerivedNames[i], Some(TypeNames[i + 1]))])) >>,
     complexTypes |->
        [n \in {TypeNames[i + 1] : i \in 0..MaxChain} |->
            IF n = TypeNames[1]
            THEN SequenceOf(<< El("BaseField", Some("xs:string")) >>)
            ELSE LET i == CHOOSE j \in 1..MaxChain : TypeNames[j + 1] = n
                 IN  Extends(TypeNames[i],
                             << El("Field", Some("xs:string")), RefTo("extension") >>)],
     simpleTypes |-> NoTypes]

Documents == {"plain", "refs", "dangling", "cycle", "chain"}

ET_parse(document) ==
    CASE document = "plain" -> PlainSchema
      [] document = "refs" -> RefsSchema
      [] document = "dangling" -> DanglingSchema
      [] document = "cycle" -> CycleSchema
      [] document = "chain" -> ChainSchema

ParserConfig(max_extension_depth, max_recursion_depth, track_extension_metadata, resolve_extension_refs, cache_resolved_refs) ==
    [max_extension_depth |-> max_extension_depth,
     max_recursion_depth |-> max_recursion_depth,
     track_extension_metadata |-> track_extension_metadata,
     resolve_extension_refs |-> resolve_extension_refs,
     cache_resolved_refs |-> cache_resolved_refs]

Configs ==
    {ParserConfig(e, d, t, r, c) :
        e \in 0..MaxExtCfg, d \in 0..MaxDepthCfg, t \in BOOLEAN, r \in BOOLEAN, c \in BOOLEAN}

RootNames == {"Root", "Shared", "Absent"}

(***************************************************************************)
(* SpecParser: one XSDParser instance, built over some document with some  *)
(* configuration, asked for trees.                                         *)
(***************************************************************************)
InitParser ==
    /\ now = 1
    /\ fs = FsInit
    /\ sc = SchemaCache_init(DefaultTtl)
    /\ lastSet = NoHistory
    /\ ret = [op |-> "init"]
    /\ DistIdle
    /\ FacadeIdle
    /\ BeyondIdle
    /\ \E document \in Documents, config \in Configs :
            px = Some(XSDParser_init(ET_parse(document), config))

\* What the caller has seen of this instance before the call: is this its
\* first parse, and did the call just before ask for the same root.
Earlier(root_name) ==
    LET again == ret.op = "parse" /\ ret.root_name = root_name
    IN  [first |-> ret.op = "init",
         again |-> again,
         raised |-> again /\ ret.raised,
         node |-> IF again THEN ret.node ELSE None]

Parse(root_name) ==
    /\ \E r \in {XSDParser_parse(The(px), root_name)} :
          /\ px' = Some(r.self)
          /\ ret' = [op |-> "parse", root_name |-> root_name, raised |-> r.raised,
                     error |-> r.error, node |-> r.node, before |-> Earlier(root_name),
                     ref_chain |-> r.ref_chain]
    /\ UNCHANGED <<now, fs, sc, lastSet, distVars, facadeVars, beyondParser>>

NextParser == \E root_name \in RootNames : Parse(root_name)

SpecParser == InitParser /\ [][NextParser]_vars


(***************************************************************************)
(* Claims about the parser, checked under SpecParser.                      *)
(***************************************************************************)
ParsedTree == ret.op = "parse" /\ ~ret.raised

\* C8: parse raises an error if and only if the requested root name is not
\* a top-level element of the schema; every other anomaly (a reference to a
\* missing element, a missing type body, a cycle, a depth overrun) yields a
\* node and does not raise.
C8_RaisesIffRootAbsent ==
    ret.op = "parse" =>
        (ret.raised <=> IsNone(XSDParser_find_element(The(px), ret.root_name)))

RECURSIVE DepthBounded(_, _, _)
DepthBounded(node, level, D) ==
    /\ level > D => node.name = DepthLimitName /\ node.children = <<>>
    /\ \A i \in 1..Len(node.children) : DepthBounded(node.children[i], level + 1, D)

RECURSIVE Placeholders(_, _)
Placeholders(node, level) ==
    (IF node.name = DepthLimitName THEN {level} ELSE {}) \cup
    UNION {Placeholders(node.children[i], level + 1) : i \in 1..Len(node.children)}

\* C9: for every schema and every max_recursion_depth D, each node of the
\* parsed tree more than D levels below the root is a childless placeholder
\* named [depth_limit_reached]; no ordinary node lies deeper than D.
C9_NothingOrdinaryBelowDepth ==
    ParsedTree => DepthBounded(The(ret.node), 0, The(px).config.max_recursion_depth)

\* A tree cut at a limit of at least two levels: its placeholders all sit
\* just below the limit.
C9_Witness ==
    /\ ParsedTree
    /\ The(px).config.max_recursion_depth >= 2
    /\ Placeholders(The(ret.node), 0) = {The(px).config.max_recursion_depth + 1}

\* The members of Root whose declared type is a named complex type, each
\* with the length of that type's inheritance chain and its node.
TypedMembers ==
    LET self == The(px)
        root == The(XSDParser_find_element(self, ret.root_name))
        members == IF IsNone(root.complexType) \/ IsNone(The(root.complexType).sequence)
                   THEN <<>> ELSE The(The(root.complexType).sequence)
        tree == The(ret.node)
    IN  {[L |-> Len(XSDParser_get_extension_chain(self, The(local_name(members[i].type)), {})),
          node |-> tree.children[j]] :
            <<i, j>> \in {p \in (1..Len(members)) \X (1..Len(tree.children)) :
                            /\ XSDParser_is_complex_type(self, members[p[1]].type)
                            /\ ~IsNone(members[p[1]].name)
                            /\ tree.children[p[2]].name = The(members[p[1]].name)}}

\* C10: for every element whose declared type has an inheritance chain of
\* length L: if L exceeds max_extension_depth the node is tagged
\* extension_chain_truncated and has no children; otherwise the node has
\* children and does not carry the tag.
C10_ExtensionBound ==
    ParsedTree =>
        \A m \in TypedMembers :
            IF m.L > The(px).config.max_extension_depth
            THEN HasNote(m.node, "extension_chain_truncated") /\ m.node.children = <<>>
            ELSE ~HasNote(m.node, "extension_chain_truncated") /\ m.node.children # <<>>

RECURSIVE Marked(_)
Marked(node) ==
    \/ node.name = DepthLimitName
    \/ HasNote(node, "recursive_reference")
    \/ \E i \in 1..Len(node.children) : Marked(node.children[i])

\* The subtrees of the parsed tree of CycleSchema that enter the cycle named:
\* "Child" enters the self-referential type, "Loop" the element that
\* references itself.
CycleEntries(name) ==
    LET tree == The(ret.node)
    IN  {tree.children[i] : i \in {j \in 1..Len(tree.children) : tree.children[j].name = name}}

OnCycleSchema == ret.op = "parse" /\ ret.root_name = "Root" /\ The(px).schema = CycleSchema

\* C11: parsing a schema with a self-referential complex type or with a
\* top-level element that references itself terminates, and the returned
\* tree contains, along the cycle, a [depth_limit_reached] placeholder or a
\* node tagged recursive_reference.
C11_CycleIsMarked ==
    OnCycleSchema =>
        /\ ~ret.raised
        /\ \A name \in {"Child", "Loop"} : \A entry \in CycleEntries(name) : Marked(entry)

\* The half of C11 about the self-referential type alone.
C11_TypeCycleEndsInPlaceholder ==
    OnCycleSchema =>
        /\ ~ret.raised
        /\ \A entry \in CycleEntries("Child") : Marked(entry)

\* The structure of a tree: xpaths, kinds, occurrence values, notes and
\* child order.
RECURSIVE Shape(_)
Shape(node) ==
    [xpath |-> node.xpath, kind |-> node.kind, min_occurs |-> node.min_occurs,
     max_occurs |-> node.max_occurs, repeatable |-> node.repeatable,
     notes |-> node.notes,
     children |-> [i \in 1..Len(node.children) |-> Shape(node.children[i])]]

Outcome(raised, node) == IF raised THEN <<"raised">> ELSE <<"tree", Shape(The(node))>>

\* A new parser instance over the same schema with the same config.
AnotherInstance == XSDParser_init(The(px).schema, The(px).config)

\* C12: parsing the same (schema, root, config) twice without the file
\* changing yields structurally identical trees, both for two parser
\* instances and for two parse() calls on the same instance.
C12_SameInputSameTree ==
    ret.op = "parse" =>
        /\ ret.before.first =>
              LET other == XSDParser_parse(AnotherInstance, ret.root_name)
              IN  Outcome(ret.raised, ret.node) = Outcome(other.raised, other.node)
        /\ ret.before.again =>
              Outcome(ret.raised, ret.node) = Outcome(ret.before.raised, ret.before.node)

\* The half of C12 that does not involve the reference cache: a second call
\* on an instance built with cache_resolved_refs off repeats the first.
C12_SameTreeWithoutReferenceCache ==
    ret.op = "parse" /\ ret.before.again /\ ~The(px).config.cache_resolved_refs =>
        Outcome(ret.raised, ret.node) = Outcome(ret.before.raised, ret.before.node)

(***************************************************************************)
(* The classification rule as the specification states it, read off the    *)
(* schema alone.                                                           *)
(***************************************************************************)
\* The enumerations declared along a named simple type's base chain,
\* nearest declaration first.
RECURSIVE DeclaredEnums(_, _, _)
DeclaredEnums(schema, type_name, seen) ==
    IF IsNone(type_name) THEN <<>>
    ELSE LET n == The(local_name(type_name))
         IN  IF n \in seen \/ n \notin DOMAIN schema.simpleTypes THEN <<>>
             ELSE schema.simpleTypes[n].enumerations \o
                  DeclaredEnums(schema, schema.simpleTypes[n].base, seen \cup {n})

\* The base type a named simple type resolves to.
DeclaredBase(schema, type_name) ==
    IF IsNone(type_name) THEN "string"
    ELSE LET n == The(local_name(type_name))
         IN  IF n \in DOMAIN schema.simpleTypes /\ ~IsNone(schema.simpleTypes[n].base)
             THEN The(local_name(schema.simpleTypes[n].base))
             ELSE n

\* The members of a complex type in declaration order: those of its base
\* types first, then its own.
RECURSIVE Members(_, _, _)
Members(schema, ct, seen) ==
    LET own(g) == IF IsNone(g) THEN <<>> ELSE The(g)
        ext == The(The(ct.complexContent).extension)
        base == The(local_name(ext.base))
    IN  IF IsNone(ct.complexContent) \/ IsNone(The(ct.complexContent).extension)
        THEN own(ct.sequence) \o own(ct.choice) \o own(ct.all)
        ELSE (IF base \in DOMAIN schema.complexTypes /\ base \notin seen
              THEN Members(schema, schema.complexTypes[base], seen \cup {base})
              ELSE <<>>) \o ext.sequence

RECURSIVE CountXpath(_, _)
CountXpath(node, xpath) ==
    LET Sum[i \in 0..Len(node.children)] ==
            IF i = 0 THEN 0 ELSE Sum[i - 1] + CountXpath(node.children[i], xpath)
    IN  (IF node.xpath = xpath THEN 1 ELSE 0) + Sum[Len(node.children)]

\* Does `node`, built at `depth` for the named element, follow the rule, and
\* do the nodes of the element's named members?  Elements named "extension",
\* members given by reference, types whose chain is over budget and members
\* below the depth limit come under other rules and are not judged here;
\* `inherited` tells whether types with an inheritance chain are judged.
RECURSIVE Classified(_, _, _, _, _, _)
Classified(self, tree, element, node, depth, inherited) ==
    LET schema == self.schema
        type_local == The(local_name(element.type))
        named_complex == ~IsNone(element.type) /\ type_local \in DOMAIN schema.complexTypes
        chain == IF named_complex THEN XSDParser_get_extension_chain(self, type_local, {})
                 ELSE <<>>
        ct == IF ~IsNone(element.complexType) THEN The(element.complexType)
              ELSE schema.complexTypes[type_local]
        members == Members(schema, ct, {})
        restriction == The(element.simpleType).restriction
    IN  IF element.name = Some("extension") THEN TRUE
        ELSE IF chain # <<>> /\ (~inherited \/ (/\ self.config.track_extension_metadata
                                                /\ Len(chain) > self.config.max_extension_depth))
        THEN TRUE
        ELSE IF ~IsNone(element.simpleType)
        THEN /\ node.kind = "field"
             /\ ~IsNone(restriction) =>
                  node.enum_values =
                      IF The(restriction).enumerations # <<>>
                      THEN The(restriction).enumerations
                      ELSE DeclaredEnums(schema, The(restriction).base, {})
        ELSE IF ~IsNone(element.complexType) \/ named_complex
        THEN /\ node.kind = "section"
             /\ depth + 1 <= self.config.max_recursion_depth =>
                  \A i \in 1..Len(members) :
                      ~IsNone(members[i].name) =>
                          /\ i <= Len(node.children)
                          /\ node.children[i].name = The(members[i].name)
                          /\ node.children[i].xpath = Append(node.xpath, The(members[i].name))
                          /\ CountXpath(tree, node.children[i].xpath) = 1
                          /\ Classified(self, tree, members[i], node.children[i],
                                        depth + 1, inherited)
        ELSE /\ node.kind = "field"
             /\ node.data_type = Some(DeclaredBase(schema, element.type))
             /\ node.enum_values = DeclaredEnums(schema, element.type, {})

RootIsClassified(inherited) ==
    ret.op = "parse" /\ ret.before.first /\ ~ret.raised =>
        Classified(The(px), The(ret.node),
                   The(XSDParser_find_element(The(px), ret.root_name)),
                   The(ret.node), 0, inherited)

\* C13: every element is classified by one rule: inline simple-type
\* restriction -> field with the inline enumerations, or else those of its
\* base-type chain; inline or named complex type -> section whose children
\* are the members of the type in declaration order; anything else -> field
\* with the resolved base type and enumerations of its named type.  A lookup
\* by xpath of a declared member finds exactly that node.
C13_OneClassificationRule == RootIsClassified(TRUE)

\* C13 for the elements whose type has no inheritance chain.
C13_OneClassificationRule_NoInheritance == RootIsClassified(FALSE)

(***************************************************************************)
(* CachedSchemaParser.  self.cache is "local" (the SchemaCache in sc) or   *)
(* "distributed" (the DistributedCache in dc over the store in backend);   *)
(* c is [sc, dc, backend], the state of the caches around one call.        *)
(***************************************************************************)
SchemaCache_make_key(parts) == <<"md5">> \o parts

\* str(self.parser_config.__dict__)
DefaultConfig == ParserConfig(3, 10, TRUE, FALSE, TRUE)
ShallowConfig == ParserConfig(3, 1, TRUE, FALSE, TRUE)
DictStr(config) ==
    CASE config = DefaultConfig -> "{max_extension_depth: 3, max_recursion_depth: 10}"
      [] config = ShallowConfig -> "{max_extension_depth: 3, max_recursion_depth: 1}"

Cache_make_key(self, c, parts) ==
    IF self.cache = "local" THEN SchemaCache_make_key(parts)
    ELSE DistributedCache_make_key(c.dc, parts)

Cache_check_file_staleness(self, c, key, f, t, fsys, fail) ==
    IF self.cache = "local"
    THEN [c |-> c, val |-> SchemaCache_check_file_staleness(c.sc, key, f, fsys)]
    ELSE LET r == DistributedCache_check_file_staleness(c.dc, key, f, t, fsys, c.backend, fail)
         IN  [c |-> [c EXCEPT !.dc = r.self, !.backend = r.backend], val |-> r.val]

Cache_get(self, c, key, t, fail) ==
    IF self.cache = "local"
    THEN LET r == SchemaCache_get(c.sc, key, t)
         IN  [c |-> [c EXCEPT !.sc = r.self], val |-> r.val]
    ELSE LET r == DistributedCache_get(c.dc, key, t, c.backend, fail)
         IN  [c |-> [c EXCEPT !.dc = r.self, !.backend = r.backend], val |-> r.val]

Cache_set(self, c, key, data, file_path, t, fsys, fail) ==
    IF self.cache = "local"
    THEN LET r == SchemaCache_set(c.sc, key, data, None, file_path, t, fsys)
         IN  [c |-> [c EXCEPT !.sc = r.self]]
    ELSE LET r == DistributedCache_set(c.dc, key, data, None, file_path, t, fsys,
                                       c.backend, fail)
         IN  [c |-> [c EXCEPT !.dc = r.self, !.backend = r.backend]]

\* Mutant: a forced refresh consults the cache like any other call.
SkipCache_Mut(force_refresh) == FALSE

\* `if not force_refresh:` guards the staleness check and the cache read.
SkipCache(force_refresh) == force_refresh

CachedSchemaParser_cache_key(self, c, xsd_path, root_name) ==
    Cache_make_key(self, c, <<"xsd", xsd_path, root_name, DictStr(self.parser_config)>>)

\* parse_xsd: [c, val, raised, parsed]; failing names the cache call of this
\* request whose backend call raises ("none": no backend call raises).
CachedSchemaParser_parse_xsd(self, c, xsd_path, root_name, force_refresh, t, fsys, failing) ==
    LET cache_key == CachedSchemaParser_cache_key(self, c, xsd_path, root_name)
        Nth(call) == IF failing = call THEN 1 ELSE 0
        readable == Path_exists(fsys, xsd_path)
        ParseAndCache(c1) ==
            IF ~readable
            THEN [c |-> c1, val |-> None, raised |-> TRUE, parsed |-> FALSE]
            ELSE Bind(XSDParser_parse(XSDParser_init(ET_parse(fsys[xsd_path].content),
                                                     self.parser_config), root_name),
                      LAMBDA result :
                        IF result.raised
                        THEN [c |-> c1, val |-> None, raised |-> TRUE, parsed |-> TRUE]
                        ELSE [c |-> Cache_set(self, c1, cache_key, The(result.node),
                                              Some(xsd_path), t, fsys, Nth("set")).c,
                              val |-> result.node, raised |-> FALSE, parsed |-> TRUE])
    IN  IF SkipCache(force_refresh) THEN ParseAndCache(c)
        ELSE Bind(Cache_check_file_staleness(self, c, cache_key, xsd_path, t, fsys,
                                             Nth("check")),
                  LAMBDA checked :
                    IF checked.val THEN ParseAndCache(checked.c)
                    ELSE Bind(Cache_get(self, checked.c, cache_key, t, Nth("get")),
                              LAMBDA cached :
                                IF ~IsNone(cached.val)
                                THEN [c |-> cached.c, val |-> cached.val,
                                      raised |-> FALSE, parsed |-> FALSE]
                                ELSE ParseAndCache(cached.c)))

(***************************************************************************)
(* SpecFacade: one CachedSchemaParser over one of the caches it can be     *)
(* given, asked for trees while the clock advances, the schema file is     *)
(* rewritten and backend calls fail.  lastSet records, per cache key, the  *)
(* latest tree parse_xsd stored, when, and the file time it saw.           *)
(***************************************************************************)
FacadeDocuments == {"plain", "refs", "dangling"}
FacadeConfigs == {DefaultConfig, ShallowConfig}
FacadeRoots == {"Root"}
FailPoints == {"none", "check", "get", "set"}
SchemaFile == "f1"

AvailableEnv == [redis_client |-> TRUE, force_fake |-> FALSE, have_redis |-> TRUE,
                 have_fakeredis |-> FALSE, ping_ok |-> TRUE]

InitFacade ==
    /\ now = 1
    /\ fs \in {[f \in Files |-> [exists |-> TRUE, mtime |-> 1, content |-> d]] :
                    d \in FacadeDocuments}
    /\ sc = SchemaCache_init(DefaultTtl)
    /\ lastSet = EmptyDict
    /\ ret = [op |-> "init"]
    /\ backend = BackendInit
    /\ down = FALSE
    /\ ParserIdle
    /\ BeyondIdle
    /\ \E kind \in {"local", "distributed"}, env \in {AvailableEnv, NoBackendEnv},
          config \in FacadeConfigs :
            /\ kind = "local" => env = NoBackendEnv
            /\ fc = [cache |-> kind, parser_config |-> config]
            /\ dc = DistributedCache_init(DefaultTtl, env)
            /\ boot = BootOf(env)

\* What the caller could know before the call: was a tree stored for the
\* key, has its time to live run out, has the file changed since.
Before(key) ==
    LET stored == key \in DOMAIN lastSet
    IN  [stored |-> stored,
         expired |-> stored /\ now - lastSet[key].at > lastSet[key].ttl,
         advanced |-> stored /\ fs[SchemaFile].mtime > lastSet[key].mtime,
         modified |-> stored /\ fs[SchemaFile] # lastSet[key].file,
         tree |-> IF stored THEN Some(lastSet[key].data) ELSE None,
         backend_up |-> fc.cache = "distributed" /\ UsesBackend(dc)]

FacadeParse(root_name, force_refresh, failing) ==
    LET c == [sc |-> sc, dc |-> dc, backend |-> backend]
        key == CachedSchemaParser_cache_key(fc, c, SchemaFile, root_name)
    IN  /\ failing # "none" => fc.cache = "distributed" /\ UsesBackend(dc)
        /\ \E r \in {CachedSchemaParser_parse_xsd(fc, c, SchemaFile, root_name,
                                                  force_refresh, now, fs, failing)} :
              /\ sc' = r.c.sc
              /\ dc' = r.c.dc
              /\ backend' = r.c.backend
              /\ lastSet' = IF r.parsed /\ ~r.raised
                            THEN DictSet(lastSet, key,
                                         [data |-> The(r.val), at |-> now, ttl |-> DefaultTtl,
                                          mtime |-> fs[SchemaFile].mtime,
                                          file |-> fs[SchemaFile]])
                            ELSE lastSet
              /\ ret' = [op |-> "parse_xsd", key |-> key, root_name |-> root_name,
                         force_refresh |-> force_refresh, failing |-> failing,
                         before |-> Before(key), val |-> r.val, raised |-> r.raised,
                         parsed |-> r.parsed]
        /\ UNCHANGED <<now, fs, down, boot, fc, parserVars, beyondParser>>

NextFacade ==
    \/ \E root_name \in FacadeRoots, force_refresh \in BOOLEAN, failing \in FailPoints :
            FacadeParse(root_name, force_refresh, failing)
    \/ Tick
    \/ \E d \in FacadeDocuments : WriteFile(SchemaFile, d)

SpecFacade == InitFacade /\ [][NextFacade]_vars


(***************************************************************************)
(* Claims about the facade, checked under SpecFacade.                      *)
(***************************************************************************)
\* C1: for every cache the facade can be given (local; distributed with the
\* backend available; distributed with the backend unavailable): once
\* parse_xsd has stored the tree for (path, root, config), a further call
\* for the same triple without force_refresh, with the file unmodified and
\* the TTL not elapsed, returns the stored tree without running the parser.
C1_StoredTreeIsServedWithoutParsing ==
    /\ ret.op = "parse_xsd"
    /\ ~ret.force_refresh
    /\ ret.before.stored /\ ~ret.before.modified /\ ~ret.before.expired
    => ~ret.parsed /\ ~ret.raised /\ ret.val = ret.before.tree

\* What a plain read of the facade's cache returns for the key right now.
HeldNow(key) ==
    Cache_get(fc, [sc |-> sc, dc |-> dc, backend |-> backend], key, now, 0).val

\* What the parser makes of the schema file as it is right now.
FreshTree(root_name) ==
    XSDParser_parse(XSDParser_init(ET_parse(fs[SchemaFile].content), fc.parser_config),
                    root_name)

MaxPasses == 2

Blank == " "
Slash == "/"
Prefix == "h:"

RECURSIVE Concat(_)
Concat(seqs) == IF seqs = <<>> THEN <<>> ELSE Head(seqs) \o Concat(Tail(seqs))

\* xpath = f"{parent_xpath}/{name}": the string of a node's xpath.
RECURSIVE XpathString(_)
XpathString(xpath) ==
    IF xpath = <<>> THEN <<>>
    ELSE XpathString(SubSeq(xpath, 1, Len(xpath) - 1)) \o <<Slash, xpath[Len(xpath)]>>

\* str.replace("h:", "")
str_replace(s) == SelectSeq(s, LAMBDA token : token # Prefix)

\* str.strip()
RECURSIVE str_strip(_)
str_strip(s) ==
    IF s = <<>> THEN s
    ELSE IF Head(s) = Blank THEN str_strip(Tail(s))
    ELSE IF s[Len(s)] = Blank THEN str_strip(SubSeq(s, 1, Len(s) - 1))
    ELSE s

\* str.lower()
str_lower(s) ==
    CASE s = "ERROR" -> "error"
      [] s = "WARN" -> "warn"
      [] s = "Info" -> "info"
      [] OTHER -> s

normalize_xpath(xpath) == str_strip(str_replace(xpath))

ValidationRule(message, severity, test, context) ==
    [message |-> message, severity |-> severity, test |-> test, context |-> context]

SchematronRule(context, message, test, severity) ==
    [context |-> context, message |-> message, test |-> test, severity |-> severity]

\* node.get(attribute, default), and (node.text or "")
AttrOr(attribute, default) == IF IsNone(attribute) THEN default ELSE The(attribute)

\* An element of the rule file: sch:assert or sch:report, and sch:rule.
Check(text, test, role) == [text |-> text, test |-> test, role |-> role]
SchRule(context, asserts, reports) == [context |-> context, asserts |-> asserts, reports |-> reports]

SchematronFiles == {"absolute", "prefixed", "relative", "unmatched", "padded", "mixed", "empty", "missing"}

\* The patterns of each file; each pattern is the sequence of its rules.
SchematronText(file) ==
    CASE file = "absolute" ->
            << << SchRule(Some(<<Slash, "Root", Slash, "Shared">>),
                          << Check(Some(<<Blank, "m1", Blank>>), Some("t1"), None) >>,
                          << Check(Some(<<"w1">>), Some("r1"), None) >>),
                  SchRule(Some(<<Slash, "Root", Slash, "Section", Slash, "Leaf">>),
                          << Check(Some(<<"m2">>), Some("t2"), Some("WARN")) >>,
                          << >>) >> >>
      [] file = "prefixed" ->
            << << SchRule(Some(<<Slash, Prefix, "Root", Slash, Prefix, "Shared">>),
                          << Check(Some(<<"m3">>), Some("t3"), None) >>,
                          << >>),
                  SchRule(Some(<<Slash, Prefix, "Root", Slash, "Section">>),
                          << >>,
                          << Check(Some(<<"w3">>), None, Some("Info")) >>) >> >>
      [] file = "relative" ->
            << << SchRule(Some(<<Prefix, "Root", Slash, Prefix, "Shared">>),
                          << Check(Some(<<"m4">>), Some("t4"), None) >>,
                          << >>),
                  SchRule(Some(<<Prefix, "Root", Slash, Prefix, "Section">>),
                          << Check(Some(<<"m5">>), Some("t5"), None) >>,
                          << >>) >> >>
      [] file = "unmatched" ->
            << << SchRule(Some(<<Slash, "Root", Slash, "Nowhere">>),
                          << Check(Some(<<"m6">>), Some("t6"), None) >>,
                          << Check(None, Some("r6"), None) >>),
                  SchRule(None,
                          << Check(Some(<<"m7">>), Some("t7"), None) >>,
                          << >>) >> >>
      [] file = "padded" ->
            << << SchRule(Some(<<Blank, Slash, "Root", Blank>>),
                          << Check(Some(<<"m8">>), Some("t8"), None),
                             Check(Some(<<"m9">>), Some("t9"), Some("ERROR")) >>,
                          << Check(Some(<<"w8">>), Some("r8"), None) >>) >> >>
      [] file = "mixed" ->
            << << SchRule(Some(<<Slash, "Root">>),
                          << Check(Some(<<"m10">>), Some("t10"), None) >>,
                          << >>) >>,
               << SchRule(Some(<<Slash, Prefix, "Root">>),
                          << >>,
                          << Check(Some(<<"w11">>), Some("r11"), None) >>),
                  SchRule(Some(<<Slash, "Nowhere">>),
                          << Check(Some(<<"m12">>), Some("t12"), None) >>,
                          << >>) >> >>
      [] OTHER -> << >>

\* ET.parse(path): raises when there is no such file.
SchematronParser_init(file) ==
    [raised |-> file = "missing", root |-> SchematronText(file)]

RulesOfChecks(context, checks, role) ==
    [i \in 1..Len(checks) |->
        SchematronRule(context,
                       str_strip(AttrOr(checks[i].text, <<>>)),
                       AttrOr(checks[i].test, ""),
                       str_lower(AttrOr(checks[i].role, role)))]

RulesOfRule(rule) ==
    IF IsNone(rule.context) \/ The(rule.context) = <<>> THEN <<>>
    ELSE RulesOfChecks(The(rule.context), rule.asserts, "ERROR")
            \o RulesOfChecks(The(rule.context), rule.reports, "WARN")

SchematronParser_iter_rules(self) ==
    Concat([p \in 1..Len(self.root) |->
        Concat([r \in 1..Len(self.root[p]) |-> RulesOfRule(self.root[p][r])])])

\* Depth-first; a node object is known by where it sits in the tree.
RECURSIVE iter_nodes(_, _)
iter_nodes(node, at) ==
    <<[at |-> at, node |-> node]>>
        \o Concat([i \in 1..Len(node.children) |->
                      iter_nodes(node.children[i], Append(at, i))])

RECURSIVE NodeAt(_, _)
NodeAt(node, at) == IF at = <<>> THEN node ELSE NodeAt(node.children[Head(at)], Tail(at))

\* context_map[_normalize_xpath(node.xpath)] = node, for the first n nodes
RECURSIVE ContextMap(_, _)
ContextMap(nodes, n) ==
    IF n = 0 THEN EmptyDict
    ELSE DictSet(ContextMap(nodes, n - 1),
                 normalize_xpath(XpathString(nodes[n].node.xpath)), nodes[n].at)

\* target.validations.append(v)
RECURSIVE AppendValidation(_, _, _)
AppendValidation(node, at, v) ==
    IF at = <<>> THEN [node EXCEPT !.validations = Append(@, v)]
    ELSE [node EXCEPT !.children[Head(at)] = AppendValidation(@, Tail(at), v)]

RECURSIVE AttachFrom(_, _, _, _)
AttachFrom(root, context_map, rules, i) ==
    IF i > Len(rules) THEN root
    ELSE LET rule == rules[i]
             normalized == normalize_xpath(rule.context)
         IN  IF normalized \notin DOMAIN context_map
             THEN AttachFrom(root, context_map, rules, i + 1)
             ELSE AttachFrom(
                    AppendValidation(root, context_map[normalized],
                        ValidationRule(rule.message, rule.severity, rule.test, rule.context)),
                    context_map, rules, i + 1)

SchematronParser_attach_to_tree(self, root) ==
    Bind(iter_nodes(root, <<>>), LAMBDA nodes :
        AttachFrom(root, ContextMap(nodes, Len(nodes)), SchematronParser_iter_rules(self), 1))

\* The tree is changed in place; a failure to read the file leaves it alone.
parse_schematron(file, root) ==
    LET parser == SchematronParser_init(file)
    IN  IF parser.raised THEN [raised |-> TRUE, root |-> root, rules |-> <<>>]
        ELSE [raised |-> FALSE,
              root |-> SchematronParser_attach_to_tree(parser, root),
              rules |-> SchematronParser_iter_rules(parser)]

(***************************************************************************)
(* SpecRules: a tree parsed from a schema document, and rule files         *)
(* attached to it, one pass after the other.                               *)
(***************************************************************************)
RuleDocuments == {"plain", "refs"}
RuleConfigs == {DefaultConfig, ShallowConfig}

InitRules ==
    /\ now = 1
    /\ fs = FsInit
    /\ sc = SchemaCache_init(DefaultTtl)
    /\ lastSet = NoHistory
    /\ ret = [op |-> "init"]
    /\ DistIdle
    /\ FacadeIdle
    /\ ParserIdle
    /\ RegistryIdle
    /\ ThreadsIdle
    /\ \E document \in RuleDocuments, config \in RuleConfigs :
        \E r \in {XSDParser_parse(XSDParser_init(ET_parse(document), config), "Root")} :
            rt = Some([root |-> The(r.node), passes |-> 0])

AttachRules(file) ==
    /\ The(rt).passes < MaxPasses
    /\ \E r \in {parse_schematron(file, The(rt).root)} :
          /\ rt' = Some([root |-> r.root, passes |-> The(rt).passes + 1])
          /\ ret' = [op |-> "parse_schematron", file |-> file, raised |-> r.raised,
                     rules |-> r.rules, before |-> The(rt).root, node |-> r.root]
    /\ UNCHANGED <<now, fs, sc, lastSet, distVars, facadeVars, parserVars, registryVars, threadVars>>

NextRules == \E file \in SchematronFiles : AttachRules(file)

SpecRules == InitRules /\ [][NextRules]_vars

(***************************************************************************)
(* Claims about rule attachment, checked under SpecRules.                  *)
(***************************************************************************)
Attached == ret.op = "parse_schematron" /\ ret.file # "missing"

\* The steps a context names, whatever its prefixes and blanks.
Steps(context) == SelectSeq(context, LAMBDA token : token \notin {Slash, Prefix, Blank})

\* What the pass added to the node at a place of the tree.
AddedAt(at) ==
    LET was == NodeAt(ret.before, at).validations
        is == NodeAt(ret.node, at).validations
    IN  SubSeq(is, Len(was) + 1, Len(is))

\* The assertions and reports of the file whose context names the path.
RulesFor(xpath) ==
    LET matching == SelectSeq(ret.rules, LAMBDA rule : Steps(rule.context) = xpath)
    IN  [i \in 1..Len(matching) |->
            ValidationRule(matching[i].message, matching[i].severity,
                           matching[i].test, matching[i].context)]

Places == {iter_nodes(ret.node, <<>>)[i].at : i \in 1..Len(iter_nodes(ret.node, <<>>))}

\* C14: after rule attachment, every node holds a ValidationRule (message,
\* severity, original test and original context) for every assertion or
\* report of the file whose context is the node's path or a prefixed
\* equivalent of it, and for no other; a context that matches no node
\* attaches nothing and the pass does not fail.
C14_RulesAttachedByPath ==
    Attached =>
        /\ ~ret.raised
        /\ \A at \in Places : AddedAt(at) = RulesFor(NodeAt(ret.node, at).xpath)

\* C14, the half that holds: the pass does not fail, and what a node gains
\* is an assertion or report of the file whose context names the node's
\* path, with its message, severity, test and context; a context naming no
\* node adds nothing anywhere.
C14_OnlyMatchingRulesAttached ==
    Attached =>
        /\ ~ret.raised
        /\ \A at \in Places :
              \A i \in 1..Len(AddedAt(at)) :
                 \E j \in 1..Len(RulesFor(NodeAt(ret.node, at).xpath)) :
                    AddedAt(at)[i] = RulesFor(NodeAt(ret.node, at).xpath)[j]

\* A context without the leading slash, or a path two nodes share, was met.
C14_Witness ==
    /\ Attached
    /\ \E at \in Places : AddedAt(at) # <<>>
    /\ \E at \in Places : AddedAt(at) # RulesFor(NodeAt(ret.node, at).xpath)

(***************************************************************************)
(* The facade's combined operation (cache.py, merger.py).                  *)
(***************************************************************************)
RulesFile == "f2"

\* parse_schematron of the facade: [c, val].
CachedSchemaParser_parse_schematron(self, c, sch_path, force_refresh, t, fsys) ==
    LET cache_key == Cache_make_key(self, c, <<"schematron", sch_path>>)
        result == [rules |-> <<>>, source |-> sch_path]
        Store(c1) ==
            [c |-> Cache_set(self, c1, cache_key, result, Some(sch_path), t, fsys, 0).c,
             val |-> result]
    IN  IF SkipCache(force_refresh) THEN Store(c)
        ELSE Bind(Cache_check_file_staleness(self, c, cache_key, sch_path, t, fsys, 0),
                  LAMBDA checked :
                    IF checked.val THEN Store(checked.c)
                    ELSE Bind(Cache_get(self, checked.c, cache_key, t, 0),
                              LAMBDA cached :
                                IF ~IsNone(cached.val)
                                THEN [c |-> cached.c, val |-> The(cached.val)]
                                ELSE Store(cached.c)))

merge_rules(xsd_rules, schematron_rules) == xsd_rules

\* parse_combined: [c, val, raised, built]; sch_path is <<>> when none is
\* given; built tells whether the call went past the cache and parsed.
CachedSchemaParser_parse_combined(self, c, xsd_path, sch_path, root_name, force_refresh, t, fsys) ==
    LET cache_key ==
            Cache_make_key(self, c,
                <<"combined", xsd_path, root_name>> \o sch_path
                    \o <<DictStr(self.parser_config)>>)
        Merged(x) ==
            IF IsNone(sch_path) THEN [c |-> x.c, val |-> The(x.val)]
            ELSE Bind(CachedSchemaParser_parse_schematron(self, x.c, The(sch_path),
                                                          force_refresh, t, fsys),
                      LAMBDA s : [c |-> s.c, val |-> merge_rules(The(x.val), s.val)])
        Build(c1) ==
            Bind(CachedSchemaParser_parse_xsd(self, c1, xsd_path, root_name,
                                              force_refresh, t, fsys, "none"),
                 LAMBDA x :
                    IF x.raised THEN [c |-> x.c, val |-> None, raised |-> TRUE,
                                      built |-> TRUE]
                    ELSE Bind(Merged(x),
                              LAMBDA m :
                                [c |-> Cache_set(self, m.c, cache_key, m.val,
                                                 Some(xsd_path), t, fsys, 0).c,
                                 val |-> Some(m.val), raised |-> FALSE, built |-> TRUE]))
    IN  IF SkipCache(force_refresh) THEN Build(c)
        ELSE Bind(Cache_check_file_staleness(self, c, cache_key, xsd_path, t, fsys, 0),
                  LAMBDA first :
                    Bind(IF ~IsNone(sch_path) /\ ~first.val
                         THEN Cache_check_file_staleness(self, first.c, cache_key,
                                                         The(sch_path), t, fsys, 0)
                         ELSE first,
                         LAMBDA stale :
                            IF stale.val THEN Build(stale.c)
                            ELSE Bind(Cache_get(self, stale.c, cache_key, t, 0),
                                      LAMBDA cached :
                                        IF ~IsNone(cached.val)
                                        THEN [c |-> cached.c, val |-> cached.val,
                                              raised |-> FALSE, built |-> FALSE]
                                        ELSE Build(cached.c))))

(***************************************************************************)
(* SpecCombined: one CachedSchemaParser asked for combined trees of a      *)
(* schema file and a rule file, while the clock advances and the rule file *)
(* is rewritten.                                                           *)
(***************************************************************************)
CombinedFiles == {"absolute", "prefixed", "unmatched"}

InitCombined ==
    /\ now = 1
    /\ \E document \in RuleDocuments, file \in CombinedFiles :
          fs = [f \in {SchemaFile, RulesFile} |->
                  [exists |-> TRUE, mtime |-> 1,
                   content |-> IF f = SchemaFile THEN document ELSE file]]
    /\ sc = SchemaCache_init(DefaultTtl)
    /\ lastSet = EmptyDict
    /\ ret = [op |-> "init"]
    /\ backend = BackendInit
    /\ down = FALSE
    /\ ParserIdle
    /\ BeyondIdle
    /\ \E kind \in {"local", "distributed"} :
          \E env \in {IF kind = "local" THEN NoBackendEnv ELSE AvailableEnv} :
            /\ fc = [cache |-> kind, parser_config |-> DefaultConfig]
            /\ dc = DistributedCache_init(DefaultTtl, env)
            /\ boot = BootOf(env)

CombinedParse(sch_path, force_refresh) ==
    LET c == [sc |-> sc, dc |-> dc, backend |-> backend]
    IN  /\ \E r \in {CachedSchemaParser_parse_combined(fc, c, SchemaFile, sch_path, "Root",
                                                       force_refresh, now, fs)} :
              /\ sc' = r.c.sc
              /\ dc' = r.c.dc
              /\ backend' = r.c.backend
              /\ ret' = [op |-> "parse_combined", sch_path |-> sch_path,
                         force_refresh |-> force_refresh, val |-> r.val,
                         raised |-> r.raised]
        /\ UNCHANGED <<now, fs, lastSet, down, boot, fc, parserVars, beyondParser>>

NextCombined ==
    \/ \E sch_path \in {None, Some(RulesFile)}, force_refresh \in BOOLEAN :
            CombinedParse(sch_path, force_refresh)
    \/ Tick
    \/ \E file \in CombinedFiles : WriteFile(RulesFile, file)

SpecCombined == InitCombined /\ [][NextCombined]_vars

(***************************************************************************)
(* Claims about the combined operation, checked under SpecCombined.        *)
(***************************************************************************)
CombinedWithRules == ret.op = "parse_combined" /\ ~IsNone(ret.sch_path) /\ ~ret.raised

\* The assertions and reports of the rule file as it is now.
RulesOnFile == SchematronParser_iter_rules(SchematronParser_init(fs[RulesFile].content))

Holds(node, rule) ==
    \E i \in 1..Len(node.validations) :
        node.validations[i]
            = ValidationRule(rule.message, rule.severity, rule.test, rule.context)

\* C15: the tree parse_combined returns when a rule file is given carries,
\* on every node whose normalized xpath equals the normalized context of an
\* assertion of that file, that assertion as a ValidationRule.
C15_CombinedCarriesRules ==
    CombinedWithRules =>
        \A i \in 1..Len(iter_nodes(The(ret.val), <<>>)) :
            \A j \in 1..Len(RulesOnFile) :
                LET node == iter_nodes(The(ret.val), <<>>)[i].node
                IN  normalize_xpath(RulesOnFile[j].context)
                        = normalize_xpath(XpathString(node.xpath))
                    => Holds(node, RulesOnFile[j])

\* C15, what the operation returns instead: the tree of the schema file
\* alone, with no rule on any node, whatever the rule file holds.
C15_CombinedIsSchemaTreeAlone ==
    CombinedWithRules =>
        /\ ret.val = FreshTree("Root").node
        /\ \A i \in 1..Len(iter_nodes(The(ret.val), <<>>)) :
              iter_nodes(The(ret.val), <<>>)[i].node.validations = <<>>

\* A combined tree was returned while the rule file has an assertion for
\* one of its nodes.
C15_Witness ==
    /\ CombinedWithRules
    /\ \E i \in 1..Len(iter_nodes(The(ret.val), <<>>)) :
          \E j \in 1..Len(RulesOnFile) :
              normalize_xpath(RulesOnFile[j].context)
                  = normalize_xpath(XpathString(iter_nodes(The(ret.val), <<>>)[i].node.xpath))

(***************************************************************************)
(* The version registry (version_manager.py, versioned_routes.py).  A      *)
(* version string is the sequence of its dot-separated parts; the catalog  *)
(* is a dict in insertion order: a sequence of SchemaVersionInfo with      *)
(* distinct versions; a parser instance is known by its id.                *)
(***************************************************************************)
MaxVersions == 2
MaxMade == 2

VersionLabels == {<<"4", "0">>, <<"4", "9">>, <<"4", "10">>, <<"v4", "1">>, <<"draft">>}

\* str.lstrip("v") on the first part of a label or path parameter
lstrip_v(s) ==
    IF s = <<>> THEN s
    ELSE CASE Head(s) = "v4" -> <<"4">> \o Tail(s)
           [] Head(s) = "vlatest" -> <<"latest">> \o Tail(s)
           [] OTHER -> s

\* str.lower()
lower(s) == IF s = <<"LATEST">> THEN <<"latest">> ELSE s

RECURSIVE StripZeros(_)
StripZeros(release) ==
    IF release # <<>> /\ release[Len(release)] = 0
    THEN StripZeros(SubSeq(release, 1, Len(release) - 1))
    ELSE release

\* version.parse(v): packaging's when it is installed, else the fallback
\* tuple(map(int, v.split("."))).  [raised, key]
version_parse(packaging, v) ==
    LET parts == IF packaging THEN lstrip_v(v) ELSE v
        numeric == \A i \in 1..Len(parts) : parts[i] \in DigitStrings
        release == [i \in 1..Len(parts) |-> IntOfDigits(parts[i])]
    IN  IF v = <<>> \/ ~numeric THEN [raised |-> TRUE, key |-> <<>>]
        ELSE [raised |-> FALSE, key |-> IF packaging THEN StripZeros(release) ELSE release]

\* a < b on tuples of integers
RECURSIVE TupleLess(_, _)
TupleLess(a, b) ==
    IF a = <<>> THEN b # <<>>
    ELSE IF b = <<>> THEN FALSE
    ELSE IF Head(a) # Head(b) THEN Head(a) < Head(b)
    ELSE TupleLess(Tail(a), Tail(b))

\* sorted(..., reverse=True), which keeps equal keys in their given order
RECURSIVE InsertByKey(_, _)
InsertByKey(sorted, item) ==
    IF sorted = <<>> THEN <<item>>
    ELSE IF TupleLess(Head(sorted).key, item.key) THEN <<item>> \o sorted
    ELSE <<Head(sorted)>> \o InsertByKey(Tail(sorted), item)

RECURSIVE SortedReverse(_)
SortedReverse(items) ==
    IF items = <<>> THEN <<>>
    ELSE InsertByKey(SortedReverse(SubSeq(items, 1, Len(items) - 1)), items[Len(items)])

SchemaVersionInfo(version, path, default) ==
    [version |-> version, path |-> path, default |-> default]

VersionPath(version) == <<"schemas">> \o version \o <<"HPXML.xsd">>

Cataloged(self) == {self.versions[i].version : i \in 1..Len(self.versions)}

InfoOf(self, version_str) ==
    self.versions[CHOOSE i \in 1..Len(self.versions) : self.versions[i].version = version_str]

\* get_available_versions: [raised, val]
VersionManager_get_available_versions(self) ==
    LET keyed == [i \in 1..Len(self.versions) |->
                    [version |-> self.versions[i].version,
                     parsed |-> version_parse(self.packaging, self.versions[i].version)]]
        items == [i \in 1..Len(keyed) |->
                    [version |-> keyed[i].version, key |-> keyed[i].parsed.key]]
    IN  IF \E i \in 1..Len(keyed) : keyed[i].parsed.raised
        THEN [raised |-> TRUE, val |-> <<>>]
        ELSE [raised |-> FALSE,
              val |-> [i \in 1..Len(items) |-> SortedReverse(items)[i].version]]

\* get_default_version: [raised, val]
VersionManager_get_default_version(self) ==
    LET flagged == {i \in 1..Len(self.versions) : self.versions[i].default}
        versions == VersionManager_get_available_versions(self)
    IN  IF flagged # {}
        THEN [raised |-> FALSE,
              val |-> Some(self.versions[CHOOSE i \in flagged : \A j \in flagged : i <= j].version)]
        ELSE IF versions.raised THEN [raised |-> TRUE, val |-> None]
        ELSE [raised |-> FALSE,
              val |-> IF versions.val # <<>> THEN Some(versions.val[1]) ELSE None]

VersionManager_is_version_available(self, version_str) == version_str \in Cataloged(self)

VersionManager_validate_version(self, version_str) ==
    /\ version_str # <<>>
    /\ VersionManager_is_version_available(self, version_str)
    /\ ~version_parse(self.packaging, version_str).raised

\* get_version_from_path: [raised, status, val]
get_version_from_path(manager, version) ==
    LET clean_version == lstrip_v(version)
        latest == VersionManager_get_available_versions(manager)
    IN  IF lower(clean_version) = <<"latest">>
        THEN IF latest.raised THEN [raised |-> TRUE, status |-> "InvalidVersion", val |-> None]
             ELSE IF latest.val = <<>> THEN [raised |-> TRUE, status |-> "404", val |-> None]
             ELSE [raised |-> FALSE, status |-> "200", val |-> Some(latest.val[1])]
        ELSE IF ~VersionManager_validate_version(manager, clean_version)
             THEN IF latest.raised
                  THEN [raised |-> TRUE, status |-> "InvalidVersion", val |-> None]
                  ELSE [raised |-> TRUE, status |-> "404", val |-> None]
             ELSE [raised |-> FALSE, status |-> "200", val |-> Some(clean_version)]

\* f"{version_str}:{config.__dict__ if config else 'default'}"
RECURSIVE VersionString(_)
VersionString(version) ==
    IF Len(version) <= 1 THEN version
    ELSE <<Head(version), ".">> \o VersionString(Tail(version))

ParserCacheKey(version_str, config) ==
    VersionString(version_str)
        \o <<":", IF IsNone(config) THEN "default" ELSE DictStr(The(config))>>

\* str.startswith
startswith(s, prefix) == Len(s) >= Len(prefix) /\ SubSeq(s, 1, Len(prefix)) = prefix

\* CachedSchemaParser(cache, parser_config, schema_path) as the registry makes it
NewParser(id, config, schema_path) ==
    [id |-> id,
     parser_config |-> IF IsNone(config) THEN DefaultConfig ELSE The(config),
     schema_path |-> schema_path]

\* get_parser: [self, val]
VersionManager_get_parser(self, version_str, config) ==
    LET cache_key == ParserCacheKey(version_str, config)
        parser == NewParser(self.made + 1, config, InfoOf(self, version_str).path)
    IN  IF version_str \notin Cataloged(self) THEN [self |-> self, val |-> None]
        ELSE IF cache_key \notin DOMAIN self.parsers
        THEN [self |-> [self EXCEPT !.parsers = DictSet(@, cache_key, parser),
                                    !.made = @ + 1],
              val |-> Some(parser)]
        ELSE [self |-> self, val |-> Some(self.parsers[cache_key])]

\* clear_parser_cache; version_str is <<>> when none is given.
VersionManager_clear_parser_cache(self, version_str) ==
    IF ~IsNone(version_str) /\ The(version_str) # <<>>
    THEN LET to_remove == {key \in DOMAIN self.parsers :
                              startswith(key, VersionString(The(version_str)) \o <<":">>)}
         IN  [self EXCEPT !.parsers = [key \in (DOMAIN @) \ to_remove |-> @[key]]]
    ELSE [self EXCEPT !.parsers = EmptyDict]

(***************************************************************************)
(* SpecRegistry: a VersionManager over some catalog, asked for its         *)
(* versions and for parsers.                                               *)
(***************************************************************************)
\* The catalogs _load_version_catalog can leave: distinct directory or file
\* names in the order the directory listed them, "4.0" flagged default
\* unless ensure_version_available added it.
Catalogs ==
    {versions \in UNION {[1..n -> VersionLabels] : n \in 0..MaxVersions} :
        \A i, j \in 1..Len(versions) : versions[i] = versions[j] => i = j}

RegistryConfigs == {None, Some(DefaultConfig), Some(ShallowConfig)}

PathParams == VersionLabels \cup {<<"latest">>, <<"vlatest">>, <<"LATEST">>}

InitRegistry ==
    /\ now = 1
    /\ fs = FsInit
    /\ sc = SchemaCache_init(DefaultTtl)
    /\ lastSet = NoHistory
    /\ ret = [op |-> "init"]
    /\ DistIdle
    /\ FacadeIdle
    /\ ParserIdle
    /\ RulesIdle
    /\ ThreadsIdle
    /\ \E packaging \in BOOLEAN, versions \in Catalogs, downloaded \in BOOLEAN :
          vm = [packaging |-> packaging,
                versions |-> [i \in 1..Len(versions) |->
                                SchemaVersionInfo(versions[i], VersionPath(versions[i]),
                                                  versions[i] = <<"4", "0">> /\ ~downloaded)],
                parsers |-> EmptyDict,
                made |-> 0]

RegistryUnchanged == UNCHANGED <<now, fs, sc, lastSet, distVars, facadeVars, parserVars, rulesVars, threadVars>>

GetAvailableVersions ==
    /\ \E r \in {VersionManager_get_available_versions(vm)} :
          ret' = [op |-> "get_available_versions", raised |-> r.raised, val |-> r.val]
    /\ UNCHANGED vm
    /\ RegistryUnchanged

GetDefaultVersion ==
    /\ \E r \in {VersionManager_get_default_version(vm)} :
          ret' = [op |-> "get_default_version", raised |-> r.raised, val |-> r.val]
    /\ UNCHANGED vm
    /\ RegistryUnchanged

GetVersionFromPath(version) ==
    /\ \E r \in {get_version_from_path(vm, version)} :
          ret' = [op |-> "get_version_from_path", version |-> version,
                  raised |-> r.raised, status |-> r.status, val |-> r.val]
    /\ UNCHANGED vm
    /\ RegistryUnchanged

GetParser(version_str, config) ==
    /\ version_str \in Cataloged(vm) /\ ParserCacheKey(version_str, config) \notin DOMAIN vm.parsers
            => vm.made < MaxMade
    /\ \E r \in {VersionManager_get_parser(vm, version_str, config)} :
          /\ vm' = r.self
          /\ ret' = [op |-> "get_parser", version |-> version_str, config |-> config,
                     val |-> r.val, before |-> vm.parsers]
    /\ RegistryUnchanged

ClearParserCache(version_str) ==
    /\ vm' = VersionManager_clear_parser_cache(vm, version_str)
    /\ ret' = [op |-> "clear_parser_cache", version |-> version_str, before |-> vm.parsers]
    /\ RegistryUnchanged

NextRegistry ==
    \/ GetAvailableVersions
    \/ GetDefaultVersion
    \/ \E version \in PathParams : GetVersionFromPath(version)
    \/ \E version_str \in VersionLabels, config \in RegistryConfigs :
            GetParser(version_str, config)
    \/ \E version_str \in {None} \cup {Some(v) : v \in VersionLabels} :
            ClearParserCache(version_str)

SpecRegistry == InitRegistry /\ [][NextRegistry]_vars

(***************************************************************************)
(* Claims about the version registry, checked under SpecRegistry.          *)
(***************************************************************************)
\* The number a version label stands for: major and minor, a leading v
\* aside; no number for a label that is not one.
IsVersionNumber(v) == \A i \in 1..Len(lstrip_v(v)) : lstrip_v(v)[i] \in DigitStrings
VersionNumber(v) == IntOfDigits(lstrip_v(v)[1]) * 100 + IntOfDigits(lstrip_v(v)[2])

NewestFirst(versions) ==
    /\ \A v \in Cataloged(vm) : Cardinality({i \in 1..Len(versions) : versions[i] = v}) = 1
    /\ Len(versions) = Cardinality(Cataloged(vm))
    /\ \A i, j \in 1..Len(versions) :
          i < j /\ IsVersionNumber(versions[i]) /\ IsVersionNumber(versions[j])
              => VersionNumber(versions[i]) >= VersionNumber(versions[j])

Flagged == {vm.versions[i].version : i \in {j \in 1..Len(vm.versions) : vm.versions[j].default}}

ListedNow == VersionManager_get_available_versions(vm)

VersionAnswers ==
    /\ ret.op = "get_available_versions" => ~ret.raised /\ NewestFirst(ret.val)
    /\ ret.op = "get_version_from_path" /\ lower(lstrip_v(ret.version)) = <<"latest">>
            /\ vm.versions # <<>>
        => ~ret.raised /\ ~ListedNow.raised /\ ret.val = Some(ListedNow.val[1])
    /\ ret.op = "get_default_version" /\ vm.versions # <<>>
        => /\ ~ret.raised
           /\ IF Flagged # {} THEN The(ret.val) \in Flagged
              ELSE ~ListedNow.raised /\ ret.val = Some(ListedNow.val[1])

\* C16: get_available_versions returns every cataloged version exactly
\* once, newest first by semantic version (4.10 before 4.9); the alias
\* latest resolves to the first element of that list; get_default_version
\* returns the flagged default if there is one, else that first element.
C16_VersionsNewestFirst == VersionAnswers

\* C16 for a catalog whose every label parses as a version under the
\* installed version module: the same answers, and no call raises.
C16_NewestFirstWhenLabelsParse ==
    (\A v \in Cataloged(vm) : ~version_parse(vm.packaging, v).raised) => VersionAnswers

\* 4.10 and 4.9 were both cataloged and listed.
C16_Witness ==
    /\ ret.op = "get_available_versions" /\ ~ret.raised
    /\ {<<"4", "9">>, <<"4", "10">>} \subseteq Cataloged(vm)
    /\ ret.val[1] = <<"4", "10">>

\* The parsers of the memo made for a version and a configuration.
ParsersFor(parsers, version_str, parser_config) ==
    {key \in DOMAIN parsers :
        /\ parsers[key].schema_path = VersionPath(version_str)
        /\ parsers[key].parser_config = parser_config}

Effective(config) == IF IsNone(config) THEN DefaultConfig ELSE The(config)

RegistryAnswers(SameConfig(_, _)) ==
    /\ ret.op = "get_parser" /\ ret.version \in Cataloged(vm)
        => /\ ~IsNone(ret.val)
           /\ The(ret.val).schema_path = VersionPath(ret.version)
           /\ \A key \in DOMAIN ret.before :
                 /\ ret.before[key].schema_path = VersionPath(ret.version)
                 /\ SameConfig(key, ret.config)
                 => The(ret.val) = ret.before[key]
    /\ ret.op = "get_parser" /\ ret.version \notin Cataloged(vm)
        => IsNone(ret.val) /\ vm.parsers = ret.before
    /\ ret.op = "clear_parser_cache" /\ ~IsNone(ret.version)
        => /\ DOMAIN vm.parsers =
                {key \in DOMAIN ret.before :
                    ret.before[key].schema_path # VersionPath(The(ret.version))}
           /\ \A key \in DOMAIN vm.parsers : vm.parsers[key] = ret.before[key]

\* C17: the registry holds at most one parser per (version, configuration),
\* an omitted configuration counting as the default one: get_parser for a
\* cataloged version returns the instance already held for that pair, bound
\* to the version's schema path; for an uncataloged version it returns
\* nothing and adds nothing; clear_parser_cache(v) removes exactly the
\* parsers of v.
C17_OneParserPerPair ==
    /\ \A v \in VersionLabels, config \in RegistryConfigs :
          Cardinality(ParsersFor(vm.parsers, v, Effective(config))) <= 1
    /\ RegistryAnswers(LAMBDA key, config :
                          ret.before[key].parser_config = Effective(config))

\* C17 with an omitted configuration kept apart from a given one: at most
\* one parser per (version, configuration as given), the same instance
\* returned until it is cleared, nothing for an uncataloged version, and
\* clear_parser_cache(v) removing exactly the parsers of v.
C17_OneParserPerGivenConfig ==
    /\ \A v \in VersionLabels, config \in RegistryConfigs :
          Cardinality({key \in ParsersFor(vm.parsers, v, Effective(config)) :
                          key = ParserCacheKey(v, config)}) <= 1
    /\ RegistryAnswers(LAMBDA key, config : key = ParserCacheKey(ret.version, config))

\* The same instance was returned a second time.
C17_Witness ==
    /\ ret.op = "get_parser" /\ ~IsNone(ret.val)
    /\ \E key \in DOMAIN ret.before : ret.before[key] = The(ret.val)

(***************************************************************************)
(* SpecRegistryThreads: threads inside get_parser of one VersionManager.   *)
(* A thread can be preempted between any two statements; each action is    *)
(* one statement of version_manager.py:241-260.                            *)
(***************************************************************************)
NumThreads == 2

Threads == 1..NumThreads

ThreadVersions == {<<"4", "0">>, <<"4", "9">>}

InitRegistryThreads ==
    /\ now = 1
    /\ fs = FsInit
    /\ sc = SchemaCache_init(DefaultTtl)
    /\ lastSet = NoHistory
    /\ ret = [op |-> "init"]
    /\ DistIdle
    /\ FacadeIdle
    /\ ParserIdle
    /\ RulesIdle
    /\ vm = [packaging |-> FALSE,
             versions |-> <<SchemaVersionInfo(<<"4", "0">>, VersionPath(<<"4", "0">>), TRUE)>>,
             parsers |-> EmptyDict,
             made |-> 0]
    /\ th = [t \in Threads |-> [pc |-> "idle"]]

RegistryThreadsUnchanged == UNCHANGED <<now, fs, sc, lastSet, distVars, facadeVars, parserVars, rulesVars>>

\* A thread enters get_parser(version_str, config).
GetParser_call(t, version_str, config) ==
    /\ th[t].pc = "idle"
    /\ th' = [th EXCEPT ![t] = [pc |-> "cataloged", version |-> version_str,
                                config |-> config, created |-> FALSE]]
    /\ ret' = [op |-> "call", thread |-> t]
    /\ UNCHANGED vm
    /\ RegistryThreadsUnchanged

\* if version_str not in self.versions: return None
GetParser_cataloged(t) ==
    /\ th[t].pc = "cataloged"
    /\ th' = [th EXCEPT ![t] =
                IF th[t].version \notin Cataloged(vm)
                THEN [pc |-> "done", version |-> @.version, config |-> @.config,
                      created |-> FALSE, val |-> None]
                ELSE [@ EXCEPT !.pc = "lookup"]]
    /\ ret' = [op |-> "cataloged", thread |-> t]
    /\ UNCHANGED vm
    /\ RegistryThreadsUnchanged

\* if cache_key not in self.parsers:
GetParser_lookup(t) ==
    /\ th[t].pc = "lookup"
    /\ th' = [th EXCEPT ![t].pc =
                IF ParserCacheKey(th[t].version, th[t].config) \notin DOMAIN vm.parsers
                THEN "construct" ELSE "return"]
    /\ ret' = [op |-> "lookup", thread |-> t]
    /\ UNCHANGED vm
    /\ RegistryThreadsUnchanged

\* parser = CachedSchemaParser(...)
GetParser_construct(t) ==
    /\ th[t].pc = "construct"
    /\ th' = [th EXCEPT ![t] =
                [pc |-> "insert", version |-> @.version, config |-> @.config,
                 created |-> TRUE,
                 parser |-> NewParser(vm.made + 1, @.config, InfoOf(vm, @.version).path)]]
    /\ vm' = [vm EXCEPT !.made = @ + 1]
    /\ ret' = [op |-> "construct", thread |-> t]
    /\ RegistryThreadsUnchanged

\* self.parsers[cache_key] = parser
GetParser_insert(t) ==
    /\ th[t].pc = "insert"
    /\ vm' = [vm EXCEPT !.parsers =
                DictSet(@, ParserCacheKey(th[t].version, th[t].config), th[t].parser)]
    /\ th' = [th EXCEPT ![t] = [pc |-> "return", version |-> @.version,
                                config |-> @.config, created |-> TRUE]]
    /\ ret' = [op |-> "insert", thread |-> t]
    /\ RegistryThreadsUnchanged

\* return self.parsers[cache_key]
GetParser_return(t) ==
    /\ th[t].pc = "return"
    /\ th' = [th EXCEPT ![t] =
                [pc |-> "done", version |-> @.version, config |-> @.config,
                 created |-> @.created,
                 val |-> Some(vm.parsers[ParserCacheKey(@.version, @.config)])]]
    /\ ret' = [op |-> "return", thread |-> t]
    /\ UNCHANGED vm
    /\ RegistryThreadsUnchanged

NextRegistryThreads ==
    \E t \in Threads :
        \/ \E version_str \in ThreadVersions, config \in {None, Some(DefaultConfig)} :
                GetParser_call(t, version_str, config)
        \/ GetParser_cataloged(t)
        \/ GetParser_lookup(t)
        \/ GetParser_construct(t)
        \/ GetParser_insert(t)
        \/ GetParser_return(t)

SpecRegistryThreads == InitRegistryThreads /\ [][NextRegistryThreads]_vars

(***************************************************************************)
(* Claims about concurrent get_parser, checked under SpecRegistryThreads.  *)
(***************************************************************************)
SameCall(t, u) ==
    /\ th[t].pc # "idle" /\ th[u].pc # "idle"
    /\ th[t].version = th[u].version /\ th[t].config = th[u].config

\* C18: when several threads call get_parser concurrently for the same
\* (version, configuration), exactly one parser instance is created and
\* every caller receives that same instance.
C18_OneInstanceUnderConcurrency ==
    \A t, u \in Threads :
        SameCall(t, u) /\ t # u
            => /\ ~(th[t].created /\ th[u].created)
               /\ th[t].pc = "done" /\ th[u].pc = "done" => th[t].val = th[u].val

\* C18 short of the race: unless both callers found the memo empty and
\* each constructed a parser, they receive the same instance.
C18_SameInstanceUnlessBothConstruct ==
    \A t, u \in Threads :
        /\ SameCall(t, u) /\ t # u
        /\ th[t].pc = "done" /\ th[u].pc = "done"
        /\ th[t].version \in Cataloged(vm)
        /\ ~(th[t].created /\ th[u].created)
        => th[t].val = th[u].val

\* Two threads have both returned from get_parser for the same cataloged
\* version and configuration.
C18_Witness ==
    \E t, u \in Threads :
        /\ t # u /\ SameCall(t, u)
        /\ th[t].pc = "done" /\ th[u].pc = "done"
        /\ th[t].version \in Cataloged(vm)

(***************************************************************************)
(* SpecCacheThreads: threads calling get, set and invalidate of one        *)
(* SchemaCache for one key.  The cache takes no lock (_lock_dummy is       *)
(* None); a thread can be preempted between any two statements, and each   *)
(* action is one statement of cache.py:125-194.                            *)
(***************************************************************************)
SharedKey == <<"k1">>

InitCacheThreads ==
    /\ now = 1
    /\ fs = FsInit
    /\ sc = SchemaCache_init(DefaultTtl)
    /\ lastSet = NoHistory
    /\ ret = [op |-> "init"]
    /\ DistIdle
    /\ FacadeIdle
    /\ ParserIdle
    /\ RulesIdle
    /\ RegistryIdle
    /\ th = [t \in Threads |-> [pc |-> "idle"]]

CacheThreadsUnchanged == UNCHANGED <<fs, distVars, facadeVars, parserVars, rulesVars, registryVars>>

\* The threads that hold an entry they read and have not acted on yet learn
\* nothing of a change another thread makes to the map.
Overtaken(t) ==
    [u \in Threads |->
        IF u # t /\ th[u].pc \in {"is_expired", "del"}
        THEN [th[u] EXCEPT !.overtaken = TRUE] ELSE th[u]]

\* entry = self._cache.get(key)
Get_read(t) ==
    /\ th[t].pc = "idle"
    /\ th' = [th EXCEPT ![t] =
                IF SharedKey \in DOMAIN sc.cache
                THEN [pc |-> "is_expired", entry |-> sc.cache[SharedKey], overtaken |-> FALSE]
                ELSE [pc |-> "idle"]]
    /\ ret' = [op |-> "get", thread |-> t, returned |-> SharedKey \notin DOMAIN sc.cache,
               raised |-> FALSE, val |-> None]
    /\ UNCHANGED <<now, sc, lastSet>>
    /\ CacheThreadsUnchanged

\* if entry.is_expired(): ... else: return entry.data
Get_is_expired(t) ==
    /\ th[t].pc = "is_expired"
    /\ th' = [th EXCEPT ![t] =
                IF CacheEntry_is_expired(@.entry, now) THEN [@ EXCEPT !.pc = "del"]
                ELSE [pc |-> "idle"]]
    /\ ret' = [op |-> "get", thread |-> t,
               returned |-> ~CacheEntry_is_expired(th[t].entry, now),
               raised |-> FALSE, val |-> Some(th[t].entry.data)]
    /\ UNCHANGED <<now, sc, lastSet>>
    /\ CacheThreadsUnchanged

\* del self._cache[key]; return None.  KeyError when the key is gone.
Get_del(t) ==
    /\ th[t].pc = "del"
    /\ sc' = IF SharedKey \in DOMAIN sc.cache
             THEN [sc EXCEPT !.cache = DictDel(@, SharedKey)] ELSE sc
    /\ th' = [Overtaken(t) EXCEPT ![t] = [pc |-> "idle"]]
    /\ ret' = [op |-> "get_del", thread |-> t, returned |-> TRUE,
               raised |-> SharedKey \notin DOMAIN sc.cache, val |-> None,
               found |-> Some(th[t].entry),
               removed |-> IF SharedKey \in DOMAIN sc.cache
                           THEN Some(sc.cache[SharedKey]) ELSE None,
               overtaken |-> th[t].overtaken]
    /\ UNCHANGED <<now, lastSet>>
    /\ CacheThreadsUnchanged

\* self._cache[key] = CacheEntry(data=data, ttl=ttl or self.default_ttl, ...)
Set_store(t, data, ttl) ==
    /\ th[t].pc = "idle"
    /\ sc' = SchemaCache_set(sc, SharedKey, data, ttl, None, now, fs).self
    /\ lastSet' = [lastSet EXCEPT ![SharedKey] =
                      Some([data |-> data, at |-> now,
                            ttl |-> TtlOrDefault(ttl, sc.default_ttl)])]
    /\ th' = Overtaken(t)
    /\ ret' = [op |-> "set", thread |-> t, returned |-> TRUE, raised |-> FALSE, val |-> None]
    /\ UNCHANGED now
    /\ CacheThreadsUnchanged

\* self._cache.pop(key, None)
Invalidate_pop(t) ==
    /\ th[t].pc = "idle"
    /\ sc' = SchemaCache_invalidate(sc, SharedKey).self
    /\ lastSet' = [lastSet EXCEPT ![SharedKey] = None]
    /\ th' = Overtaken(t)
    /\ ret' = [op |-> "invalidate", thread |-> t, returned |-> TRUE, raised |-> FALSE,
               val |-> None]
    /\ UNCHANGED now
    /\ CacheThreadsUnchanged

\* time.time() moves on.
Clock ==
    /\ now < MaxTime
    /\ now' = now + 1
    /\ ret' = [op |-> "tick"]
    /\ UNCHANGED <<sc, lastSet, th>>
    /\ CacheThreadsUnchanged

NextCacheThreads ==
    \/ \E t \in Threads :
          \/ Get_read(t)
          \/ Get_is_expired(t)
          \/ Get_del(t)
          \/ \E data \in Values, ttl \in TtlArgs : Set_store(t, data, ttl)
          \/ Invalidate_pop(t)
    \/ Clock

SpecCacheThreads == InitCacheThreads /\ [][NextCacheThreads]_vars

(***************************************************************************)
(* Claims about the concurrent cache, checked under SpecCacheThreads.      *)
(***************************************************************************)
\* The latest completed set of the key, if it is neither invalidated nor
\* past its time to live.
StoredAndLive ==
    /\ ~IsNone(lastSet[SharedKey])
    /\ ~(now - The(lastSet[SharedKey]).at > The(lastSet[SharedKey]).ttl)

\* C19: for every interleaving of get, set and invalidate on one key, no
\* call raises; a get that found an expired entry removes that entry and
\* never one a concurrent set has stored in the meantime; and a value whose
\* set has completed is what a later get finds until it expires or is
\* invalidated.
C19_EntryMapSafeUnderConcurrency ==
    /\ ret.op \in {"get", "get_del", "set", "invalidate"} => ~ret.raised
    /\ ret.op = "get_del" => ret.removed = ret.found
    /\ StoredAndLive
        => /\ SharedKey \in DOMAIN sc.cache
           /\ sc.cache[SharedKey].data = The(lastSet[SharedKey]).data

\* C19 for a get no other thread overtakes between its read of the map and
\* its removal of the expired entry: it does not raise and it removes the
\* entry it found; set and invalidate never raise.
C19_SafeWhenGetIsNotOvertaken ==
    /\ ret.op \in {"get", "set", "invalidate"} => ~ret.raised
    /\ ret.op = "get_del" /\ ~ret.overtaken => ~ret.raised /\ ret.removed = ret.found

\* A get found an expired entry and went on to remove it after another
\* thread had changed the map.
C19_Witness == ret.op = "get_del" /\ ret.overtaken

(***************************************************************************)
(* SpecStampede: callers inside parse_xsd of one CachedSchemaParser over   *)
(* the local cache, all asking for the same (path, root, configuration)    *)
(* while the cache is empty and the schema file stays as it is.  Neither   *)
(* the facade nor the cache takes a lock; each action is one statement of  *)
(* cache.py:557-573 or, inside the cache's get, of cache.py:136-156.       *)
(***************************************************************************)
NumCallers == 3

Callers == 1..NumCallers

StampedeRoot == "Root"

StampedeKey == CachedSchemaParser_cache_key(fc, [sc |-> sc, dc |-> dc, backend |-> backend], SchemaFile, StampedeRoot)

InitStampede ==
    /\ now = 1
    /\ fs \in {[f \in Files |-> [exists |-> TRUE, mtime |-> 1, content |-> d]] :
                    d \in FacadeDocuments}
    /\ \E default_ttl \in 1..DefaultTtl : sc = SchemaCache_init(default_ttl)
    /\ lastSet = EmptyDict
    /\ ret = [op |-> "init"]
    /\ DistIdle
    /\ ParserIdle
    /\ RulesIdle
    /\ RegistryIdle
    /\ \E config \in FacadeConfigs : fc = [cache |-> "local", parser_config |-> config]
    /\ th = [t \in Callers |-> [pc |-> "idle"]]

StampedeUnchanged == UNCHANGED <<fs, lastSet, distVars, facadeVars, parserVars, rulesVars, registryVars>>

Returned(val, raised, parsed, saw_expired) ==
    [pc |-> "done", val |-> val, raised |-> raised, parsed |-> parsed,
     saw_expired |-> saw_expired]

\* A caller enters parse_xsd(xsd_path, root_name) without force_refresh.
ParseXsd_call(t) ==
    /\ th[t].pc = "idle"
    /\ th' = [th EXCEPT ![t] = [pc |-> "check", saw_expired |-> FALSE]]
    /\ ret' = [op |-> "call", thread |-> t]
    /\ UNCHANGED <<now, sc>>
    /\ StampedeUnchanged

\* if not self.cache.check_file_staleness(cache_key, xsd_path):
ParseXsd_check(t) ==
    /\ th[t].pc = "check"
    /\ th' = [th EXCEPT ![t].pc =
                IF SchemaCache_check_file_staleness(sc, StampedeKey, SchemaFile, fs)
                THEN "parse" ELSE "get_read"]
    /\ ret' = [op |-> "check", thread |-> t]
    /\ UNCHANGED <<now, sc>>
    /\ StampedeUnchanged

\* cached = self.cache.get(cache_key), its statement entry = self._cache.get(key)
ParseXsd_get_read(t) ==
    /\ th[t].pc = "get_read"
    /\ th' = [th EXCEPT ![t] =
                IF StampedeKey \in DOMAIN sc.cache
                THEN [pc |-> "get_is_expired", saw_expired |-> FALSE,
                      entry |-> sc.cache[StampedeKey]]
                ELSE [pc |-> "parse", saw_expired |-> FALSE]]
    /\ ret' = [op |-> "get_read", thread |-> t]
    /\ UNCHANGED <<now, sc>>
    /\ StampedeUnchanged

\* ... its statement if entry.is_expired(), else return entry.data and
\* `if cached is not None: return cached`
ParseXsd_get_is_expired(t) ==
    /\ th[t].pc = "get_is_expired"
    /\ th' = [th EXCEPT ![t] =
                IF CacheEntry_is_expired(@.entry, now)
                THEN [pc |-> "get_del", saw_expired |-> TRUE, entry |-> @.entry]
                ELSE Returned(Some(@.entry.data), FALSE, FALSE, FALSE)]
    /\ ret' = [op |-> "get_is_expired", thread |-> t]
    /\ UNCHANGED <<now, sc>>
    /\ StampedeUnchanged

\* ... its statement del self._cache[key]: KeyError when the key is gone,
\* else get returns None and parse_xsd goes on to parse.
ParseXsd_get_del(t) ==
    /\ th[t].pc = "get_del"
    /\ sc' = IF StampedeKey \in DOMAIN sc.cache
             THEN [sc EXCEPT !.cache = DictDel(@, StampedeKey)] ELSE sc
    /\ th' = [th EXCEPT ![t] =
                IF StampedeKey \in DOMAIN sc.cache
                THEN [pc |-> "parse", saw_expired |-> TRUE]
                ELSE Returned(None, TRUE, FALSE, TRUE)]
    /\ ret' = [op |-> "get_del", thread |-> t]
    /\ UNCHANGED now
    /\ StampedeUnchanged

\* parser = XSDParser(xsd_path, config=self.parser_config)
\* result = parser.parse(root_name=root_name)
ParseXsd_parse(t) ==
    /\ th[t].pc = "parse"
    /\ \E r \in {XSDParser_parse(XSDParser_init(ET_parse(fs[SchemaFile].content),
                                                 fc.parser_config), StampedeRoot)} :
          th' = [th EXCEPT ![t] =
                    IF r.raised THEN Returned(None, TRUE, TRUE, @.saw_expired)
                    ELSE [pc |-> "set", saw_expired |-> @.saw_expired,
                          result |-> The(r.node)]]
    /\ ret' = [op |-> "parse", thread |-> t]
    /\ UNCHANGED <<now, sc>>
    /\ StampedeUnchanged

\* self.cache.set(cache_key, result, file_path=xsd_path); return result
ParseXsd_set(t) ==
    /\ th[t].pc = "set"
    /\ sc' = SchemaCache_set(sc, StampedeKey, th[t].result, None, Some(SchemaFile),
                             now, fs).self
    /\ th' = [th EXCEPT ![t] = Returned(Some(@.result), FALSE, TRUE, @.saw_expired)]
    /\ ret' = [op |-> "set", thread |-> t]
    /\ UNCHANGED now
    /\ StampedeUnchanged

\* time.time() moves on while the callers run.
StampedeClock ==
    /\ now < MaxTime
    /\ now' = now + 1
    /\ ret' = [op |-> "tick"]
    /\ UNCHANGED <<sc, th>>
    /\ StampedeUnchanged

NextStampede ==
    \/ \E t \in Callers :
          \/ ParseXsd_call(t)
          \/ ParseXsd_check(t)
          \/ ParseXsd_get_read(t)
          \/ ParseXsd_get_is_expired(t)
          \/ ParseXsd_get_del(t)
          \/ ParseXsd_parse(t)
          \/ ParseXsd_set(t)
    \/ StampedeClock

SpecStampede == InitStampede /\ [][NextStampede]_vars

(***************************************************************************)
(* Claims about the stampede, checked under SpecStampede.                  *)
(***************************************************************************)
\* What a single sequential call makes of the schema file.
Sequential == FreshTree(StampedeRoot)

AllFinished == \A t \in Callers : th[t].pc = "done"

SameAsSequential ==
    /\ \A t \in Callers :
          th[t].pc = "done"
              => /\ th[t].raised = Sequential.raised
                 /\ th[t].val = Sequential.node
    /\ AllFinished /\ ~Sequential.raised
          => /\ StampedeKey \in DOMAIN sc.cache
             /\ Some(sc.cache[StampedeKey].data) = Sequential.node

\* C20: when several callers concurrently call parse_xsd for the same
\* (path, root, configuration) on an empty cache and the file is not
\* modified, every caller returns the tree a single sequential call
\* returns, and the entry left in the cache when all have finished is
\* that tree, whichever caller stored last.
C20_StampedeYieldsOneTree == SameAsSequential

\* C20 for a stampede during which no caller finds the stored entry past
\* its time to live: the same outcome for every caller and the same entry.
C20_OneTreeWhileEntryLives ==
    (\A t \in Callers : th[t].pc # "idle" => ~th[t].saw_expired) => SameAsSequential

\* Every caller has returned and at least two of them ran the parser.
C20_Witness ==
    /\ AllFinished
    /\ \E t, u \in Callers : t # u /\ th[t].parsed /\ th[u].parsed /\ ~th[t].raised

(***************************************************************************)
(* C21.  No operation of the distributed cache (get, set, invalidate,      *)
(* clear, check_file_staleness) overwrites or deletes a backend key that   *)
(* does not start with the cache's prefix: the data other users keep in    *)
(* the same backend instance is unchanged by every operation, clear        *)
(* included.                                                               *)
(***************************************************************************)
HasPrefix(self, rk) == Len(rk) > 0 /\ rk[1] = self.redis_prefix

ForeignData(b) == {rk \in DOMAIN b : ~HasPrefix(dc, rk)}

C21_ForeignDataUntouched ==
    /\ ForeignData(backend) = ForeignData(BackendInit)
    /\ \A rk \in ForeignData(BackendInit) : backend[rk] = BackendInit[rk]

\* C21 for every operation but clear: a step of get, set, invalidate or
\* check_file_staleness leaves every key without the prefix as it was, and
\* every key it writes or deletes carries the prefix.
C21_ForeignDataUntouchedExceptByClear ==
    [][ret'.op # "clear" =>
          /\ \A rk \in ForeignData(backend) :
                rk \in DOMAIN backend' /\ backend'[rk] = backend[rk]
          /\ \A rk \in DOMAIN backend' :
                (rk \notin DOMAIN backend \/ backend'[rk] # backend[rk]) => HasPrefix(dc, rk)
          /\ \A rk \in DOMAIN backend :
                rk \notin DOMAIN backend' => HasPrefix(dc, rk)]_vars

\* A set has just written the value and its metadata to the backend next to
\* the other user's data.
C21_Witness ==
    /\ ret.op = "set"
    /\ ret.contacted
    /\ ~ret.failed
    /\ DistributedCache_make_key(dc, ret.key) \in DOMAIN backend
    /\ MetaKey(DistributedCache_make_key(dc, ret.key)) \in DOMAIN backend
    /\ ForeignKey \in DOMAIN backend

(***************************************************************************)
(* C22.  When configuration forces the in-memory substitute backend, the   *)
(* distributed cache marks the backend unavailable, get_cache_stats        *)
(* reports it unavailable, and every operation is routed to the embedded   *)
(* local cache.                                                            *)
(***************************************************************************)
SubstituteForced == boot.forced_fake \/ boot.forced_absent

C22_ForcedSubstituteIsUnavailable ==
    SubstituteForced =>
        /\ ~dc.redis_available
        /\ ret.op = "stats" => ~ret.val.redis_available
        /\ ret.op \in {"get", "set", "invalidate", "clear", "check"} => ~ret.contacted

\* C22 as the code has it: a forced substitute whose library imports is
\* selected as the backend and marked available, get_cache_stats reports what
\* the flag says, and get and set go to the substitute for as long as no
\* backend call has raised; only when the library does not import is the
\* backend unavailable and every operation served by the embedded cache.
C22_ForcedSubstituteIsTheBackend ==
    /\ boot.forced_fake =>
          /\ dc.redis = "fakeredis"
          /\ ret.op = "init" => dc.redis_available
          /\ (ret.op \in {"get", "set"} /\ dc.redis_available) =>
                (ret.contacted /\ ~ret.failed)
          /\ ret.op = "stats" =>
                /\ ret.val.redis_available = dc.redis_available
                /\ ~dc.redis_available => IsNone(ret.val.redis_key_count)
    /\ boot.forced_absent =>
          /\ dc.redis = "None"
          /\ ~dc.redis_available
          /\ ret.op \in {"get", "set", "invalidate", "clear", "check"} => ~ret.contacted
          /\ ret.op = "stats" =>
                (~ret.val.redis_available /\ IsNone(ret.val.redis_key_count))

\* A get on a cache whose substitute backend was forced, answered by the
\* backend with the value a set stored there.
C22_Witness ==
    /\ boot.forced_fake
    /\ ret.op = "get"
    /\ ret.contacted
    /\ ~ret.failed
    /\ ret.val = Some("v1")
    /\ dc.fallback_cache.cache # EmptyDict

(***************************************************************************)
(* C23.  In every tree the parser returns, no two nodes share an xpath     *)
(* unless at least one of them is a recursion, cycle or depth-limit        *)
(* placeholder; in particular two sibling elements of one content model    *)
(* never produce two ordinary nodes with the same xpath.                   *)
(***************************************************************************)
\* The shapes a placeholder takes: the depth-limit node, the node tagged
\* recursive_reference, and the childless string field left where a
\* reference to a top-level element was cut.
IsPlaceholder(self, node) ==
    \/ node.name = DepthLimitName
    \/ HasNote(node, "recursive_reference")
    \/ /\ node.kind = "field"
       /\ node.data_type = Some("string")
       /\ ~IsNone(XSDParser_find_element(self, node.name))

XpathUnique(self, tree) ==
    LET nodes == iter_nodes(tree, <<>>)
    IN  \A i, j \in 1..Len(nodes) :
            (i < j /\ nodes[i].node.xpath = nodes[j].node.xpath) =>
                (IsPlaceholder(self, nodes[i].node) \/ IsPlaceholder(self, nodes[j].node))

C23_XpathUniqueInTree == ParsedTree => XpathUnique(The(px), The(ret.node))

\* The name a member of a content model gives its node.
MemberName(element) == IF IsNone(element.ref) THEN element.name ELSE local_name(element.ref)

RECURSIVE NamesOnce(_)
NamesOnce(ct) ==
    LET items == ContainerItems(ct)
    IN  /\ \A i, j \in 1..Len(items) :
              i < j => MemberName(items[i].child) # MemberName(items[j].child)
        /\ \A i \in 1..Len(items) :
              IsNone(items[i].child.complexType) \/ NamesOnce(The(items[i].child.complexType))

SiblingNamesDistinct(schema) ==
    /\ \A i \in 1..Len(schema.elements) :
          IsNone(schema.elements[i].complexType) \/ NamesOnce(The(schema.elements[i].complexType))
    /\ \A n \in DOMAIN schema.complexTypes : NamesOnce(schema.complexTypes[n])

\* C23 for the schemas in which no content model names a member twice.
C23_XpathUniqueWhenSiblingsDiffer ==
    (ParsedTree /\ SiblingNamesDistinct(The(px).schema)) =>
        XpathUnique(The(px), The(ret.node))

\* A tree of several levels, cut by the depth limit, whose xpaths are unique.
C23_Witness ==
    /\ ParsedTree
    /\ SiblingNamesDistinct(The(px).schema)
    /\ Len(iter_nodes(The(ret.node), <<>>)) >= 5
    /\ XpathUnique(The(px), The(ret.node))

(***************************************************************************)
(* C24.  Every node the parser emits in place of a cut reference cycle, a  *)
(* cut structural cycle, a depth overrun, an extension-chain overrun or an *)
(* unresolved reference carries at least one note naming the degradation,  *)
(* so that a caller can tell each such placeholder from an ordinary field  *)
(* or section by its notes alone.                                          *)
(***************************************************************************)
\* A node standing where a reference to a top-level element was cut: the
\* target declares a complex type, so a resolved reference yields a section,
\* and only the name-only stand-in of _resolve_reference yields a field.
CutReference(self, node) ==
    /\ node.kind = "field"
    /\ ~IsNone(XSDParser_find_element(self, node.name))
    /\ ~IsNone(The(XSDParser_find_element(self, node.name)).complexType)

\* A member of Root whose type's inheritance chain is over the budget while
\* chains are tracked.
ChainOverrun(self, node) ==
    /\ self.config.track_extension_metadata
    /\ \E m \in TypedMembers : m.node = node /\ m.L > self.config.max_extension_depth

Degraded(self, node, reference_cuts) ==
    \/ node.name = DepthLimitName
    \/ ChainOverrun(self, node)
    \/ reference_cuts /\ CutReference(self, node)

Noted(node) ==
    \/ HasNote(node, "max_depth_exceeded")
    \/ HasNote(node, "extension_chain_truncated")
    \/ HasNote(node, "recursive_reference")

DegradedAreNoted(reference_cuts) ==
    LET nodes == iter_nodes(The(ret.node), <<>>)
    IN  \A i \in 1..Len(nodes) :
            Degraded(The(px), nodes[i].node, reference_cuts) => Noted(nodes[i].node)

C24_PlaceholdersCarryNotes == ParsedTree => DegradedAreNoted(TRUE)

\* C24 without the cut references: the nodes put in place of a depth
\* overrun or of an over-budget inheritance chain carry their note.
C24_DepthAndChainPlaceholdersCarryNotes == ParsedTree => DegradedAreNoted(FALSE)

\* A tree holding both a depth-limit placeholder and a truncated chain.
C24_Witness ==
    /\ ParsedTree
    /\ \E m \in TypedMembers : ChainOverrun(The(px), m.node) /\ Noted(m.node)
    /\ Placeholders(The(ret.node), 0) # {}

(***************************************************************************)
(* C25.  The reference-chain guard set is balanced: whenever the build of  *)
(* an element returns, the set of referenced names is what it was when the *)
(* build was entered, with reference memoization on or off.  Consequently  *)
(* a reference to a top-level element becomes a cycle placeholder only     *)
(* while that name is being resolved by an active ancestor, never because  *)
(* an earlier sibling or an unrelated subtree referenced it.               *)
(***************************************************************************)
\* The build of the root is entered with an empty guard set.  A name an
\* inner build leaves behind is removed by no build above it, since only the
\* build that added a name discards it, so the set the root's build returns
\* holds every name any build below it failed to remove.
GuardBalanced == ret.ref_chain = {}

\* Every cut reference lies below a node of its own name.
CutsLieOnCycles ==
    LET nodes == iter_nodes(The(ret.node), <<>>)
    IN  \A i \in 1..Len(nodes) :
            CutReference(The(px), nodes[i].node) =>
                \E k \in 1..(Len(nodes[i].node.xpath) - 1) :
                    nodes[i].node.xpath[k] = nodes[i].node.name

C25_GuardSetBalanced == ParsedTree => (GuardBalanced /\ CutsLieOnCycles)

\* C25 with reference memoization off.
C25_GuardSetBalancedWithoutMemoization ==
    (ParsedTree /\ ~The(px).config.cache_resolved_refs) => (GuardBalanced /\ CutsLieOnCycles)

\* A tree with resolved references, memoization off: the guard set is empty
\* again and the one cut reference closes a real cycle.
C25_Witness ==
    /\ ParsedTree
    /\ ~The(px).config.cache_resolved_refs
    /\ GuardBalanced
    /\ \E i \in 1..Len(iter_nodes(The(ret.node), <<>>)) :
          CutReference(The(px), iter_nodes(The(ret.node), <<>>)[i].node)

(***************************************************************************)
(* C26.  For every element reference that is resolved to a top-level       *)
(* element, on the first and on every later resolution of the same name    *)
(* and with reference memoization on or off, the node's min_occurs and     *)
(* max_occurs are those written on the referencing element whenever it     *)
(* declares them, not those of the referenced target.                      *)
(***************************************************************************)
\* The members of the root's own sequence that are references to a declared
\* top-level element and carry an occurrence attribute.
OccurringReferences ==
    LET self == The(px)
        root == The(XSDParser_find_element(self, ret.root_name))
        members == IF IsNone(root.complexType) \/ IsNone(The(root.complexType).sequence)
                   THEN <<>> ELSE The(The(root.complexType).sequence)
    IN  {members[i] : i \in {j \in 1..Len(members) :
            /\ ~IsNone(members[j].ref)
            /\ ~IsNone(XSDParser_find_element(self, The(local_name(members[j].ref))))
            /\ (~IsNone(members[j].minOccurs) \/ ~IsNone(members[j].maxOccurs))}}

\* Some child of the root is the resolved target with the occurrence values
\* the reference declares.
OccursAsWritten(member) ==
    LET tree == The(ret.node)
    IN  \E i \in 1..Len(tree.children) :
            /\ tree.children[i].name = The(local_name(member.ref))
            /\ ~CutReference(The(px), tree.children[i])
            /\ ~IsNone(member.minOccurs) =>
                  tree.children[i].min_occurs = parse_occurs(member.minOccurs)
            /\ ~IsNone(member.maxOccurs) =>
                  tree.children[i].max_occurs = member.maxOccurs

ReferencesBuilt == ParsedTree /\ The(px).config.max_recursion_depth >= 1

C26_ReferenceOccursOverride ==
    ReferencesBuilt => \A member \in OccurringReferences : OccursAsWritten(member)

\* C26 with reference memoization off.
C26_ReferenceOccursOverrideWithoutMemoization ==
    (ReferencesBuilt /\ ~The(px).config.cache_resolved_refs) =>
        \A member \in OccurringReferences : OccursAsWritten(member)

\* A reference that declares minOccurs 0 and maxOccurs unbounded over a
\* target that declares neither, resolved to a repeatable section.
C26_Witness ==
    /\ ReferencesBuilt
    /\ \E member \in OccurringReferences :
          /\ OccursAsWritten(member)
          /\ \E i \in 1..Len(The(ret.node).children) :
                /\ The(ret.node).children[i].kind = "section"
                /\ The(ret.node).children[i].repeatable
                /\ The(ret.node).children[i].min_occurs = Some(0)

(***************************************************************************)
(* C27.  The resolve_extension_refs option decides how a reference to the  *)
(* top-level element named extension is handled: when it is true the       *)
(* reference is fully resolved and expanded like any other reference; when *)
(* it is false the reference is emitted as a childless section tagged      *)
(* extension_point.                                                        *)
(***************************************************************************)
\* The nodes built for the members of the root's own sequence that refer to
\* a declared top-level element named extension.
ExtensionReferenceNodes ==
    LET self == The(px)
        root == The(XSDParser_find_element(self, ret.root_name))
        members == IF IsNone(root.complexType) \/ IsNone(The(root.complexType).sequence)
                   THEN <<>> ELSE The(The(root.complexType).sequence)
        referred == \E i \in 1..Len(members) :
                        /\ local_name(members[i].ref) = Some("extension")
                        /\ ~IsNone(XSDParser_find_element(self, "extension"))
        tree == The(ret.node)
    IN  IF referred
        THEN {tree.children[i] : i \in {j \in 1..Len(tree.children) :
                                          tree.children[j].name = "extension"}}
        ELSE {}

OpaqueExtensionPoint(node) ==
    /\ node.kind = "section"
    /\ node.children = <<>>
    /\ HasNote(node, "extension_point")

\* Expanded as the reference to any other element with a complex type is:
\* a section holding the target's members, without the tag.
ExpandedReference(node) ==
    /\ node.kind = "section"
    /\ node.children # <<>>
    /\ ~HasNote(node, "extension_point")

C27_OptionDecidesExtensionReferences ==
    ReferencesBuilt =>
        \A node \in ExtensionReferenceNodes :
            IF The(px).config.resolve_extension_refs
            THEN ExpandedReference(node)
            ELSE OpaqueExtensionPoint(node)

\* What holds of the code: with the option true or false, a reference to
\* the element named extension is emitted as a childless section tagged
\* extension_point.
C27_ExtensionReferencesAreOpaque ==
    ReferencesBuilt => \A node \in ExtensionReferenceNodes : OpaqueExtensionPoint(node)

\* A tree with an extension reference, parsed with the option set.
C27_Witness ==
    /\ ReferencesBuilt
    /\ The(px).config.resolve_extension_refs
    /\ \E node \in ExtensionReferenceNodes : OpaqueExtensionPoint(node)

(***************************************************************************)
(* SpecCombinedCache: one CachedSchemaParser asked again and again for the *)
(* combined tree, with and without the rule file, while the clock advances *)
(* and either file is rewritten.  lastSet records, per rule-file argument, *)
(* when the combined result was last built and the modification times the  *)
(* two files had then.                                                     *)
(***************************************************************************)
RuleArgs == {None, Some(RulesFile)}

InitCombinedCache ==
    /\ now = 1
    /\ fs = [f \in {SchemaFile, RulesFile} |->
                [exists |-> TRUE, mtime |-> 1,
                 content |-> IF f = SchemaFile THEN "refs" ELSE "absolute"]]
    /\ lastSet = [a \in RuleArgs |-> None]
    /\ ret = [op |-> "init"]
    /\ backend = BackendInit
    /\ down = FALSE
    /\ ParserIdle
    /\ BeyondIdle
    /\ \E kind \in {"local", "distributed"}, ttl \in 1..DefaultTtl :
          \E env \in {IF kind = "local" THEN NoBackendEnv ELSE AvailableEnv} :
            /\ fc = [cache |-> kind, parser_config |-> DefaultConfig]
            /\ sc = SchemaCache_init(ttl)
            /\ dc = DistributedCache_init(ttl, env)
            /\ boot = BootOf(env)

CombinedCall(sch_path, force_refresh) ==
    LET c == [sc |-> sc, dc |-> dc, backend |-> backend]
    IN  /\ \E r \in {CachedSchemaParser_parse_combined(fc, c, SchemaFile, sch_path, "Root",
                                                       force_refresh, now, fs)} :
              /\ sc' = r.c.sc
              /\ dc' = r.c.dc
              /\ backend' = r.c.backend
              /\ lastSet' = IF r.built /\ ~r.raised
                            THEN [lastSet EXCEPT ![sch_path] =
                                    Some([at |-> now,
                                          xsd_mtime |-> fs[SchemaFile].mtime,
                                          sch_mtime |-> fs[RulesFile].mtime])]
                            ELSE lastSet
              /\ ret' = [op |-> "parse_combined", sch_path |-> sch_path,
                         force_refresh |-> force_refresh, raised |-> r.raised,
                         built |-> r.built, before |-> lastSet[sch_path]]
        /\ UNCHANGED <<now, fs, down, boot, fc, parserVars, beyondParser>>

NextCombinedCache ==
    \/ \E sch_path \in RuleArgs, force_refresh \in BOOLEAN :
            CombinedCall(sch_path, force_refresh)
    \/ Tick
    \/ \E f \in {SchemaFile, RulesFile} : WriteFile(f, fs[f].content)

SpecCombinedCache == InitCombinedCache /\ [][NextCombinedCache]_vars

(***************************************************************************)
(* C28.  A combined result stored by parse_combined for an XSD file and an *)
(* assertion file is served from the cache on later non-forced calls for   *)
(* as long as neither file is modified and the TTL has not elapsed, and is *)
(* rebuilt on the first call after either file's modification time         *)
(* advances.                                                               *)
(***************************************************************************)
\* A non-forced call for a result that was stored before.
CombinedAgain(with_rules) ==
    /\ ret.op = "parse_combined"
    /\ ~ret.force_refresh
    /\ ~IsNone(ret.before)
    /\ with_rules <=> ~IsNone(ret.sch_path)

TtlOfFacade == IF fc.cache = "local" THEN sc.default_ttl ELSE dc.default_ttl

Unmodified(with_rules) ==
    /\ fs[SchemaFile].mtime = The(ret.before).xsd_mtime
    /\ with_rules => fs[RulesFile].mtime = The(ret.before).sch_mtime

Advanced(with_rules) ==
    \/ fs[SchemaFile].mtime > The(ret.before).xsd_mtime
    \/ with_rules /\ fs[RulesFile].mtime > The(ret.before).sch_mtime

ServedWhileFresh(with_rules) ==
    CombinedAgain(with_rules) =>
        /\ (Unmodified(with_rules) /\ ~(now - The(ret.before).at > TtlOfFacade)) => ~ret.built
        /\ Advanced(with_rules) => ret.built

C28_CombinedFollowsBothFiles == ServedWhileFresh(TRUE)

\* C28 for calls that name no assertion file: the stored result is served
\* while the XSD file is unmodified and the TTL has not elapsed, and rebuilt
\* once the XSD file's modification time has advanced.
C28_CombinedFollowsSchemaFile == ServedWhileFresh(FALSE)

\* The combined result for both files, stored earlier, is served from the
\* cache at a later time.
C28_Witness ==
    /\ CombinedAgain(TRUE)
    /\ Unmodified(TRUE)
    /\ now > The(ret.before).at
    /\ ~ret.built

(***************************************************************************)
(* SpecCoherence: callers in parse_xsd, one statement per step, while the  *)
(* clock advances and the schema file is rewritten with other content and  *)
(* a later modification time.                                              *)
(***************************************************************************)
Parsers == 1..2

InitCoherence ==
    /\ now = 1
    /\ fs \in {[f \in Files |-> [exists |-> TRUE, mtime |-> 1, content |-> d]] :
                    d \in RuleDocuments}
    /\ sc = SchemaCache_init(DefaultTtl)
    /\ lastSet = EmptyDict
    /\ ret = [op |-> "init"]
    /\ DistIdle
    /\ ParserIdle
    /\ RulesIdle
    /\ RegistryIdle
    /\ fc = [cache |-> "local", parser_config |-> DefaultConfig]
    /\ th = [t \in Parsers |-> [pc |-> "idle"]]

\* Another process replaces the schema file.
Rewrite(document) ==
    /\ now > fs[SchemaFile].mtime
    /\ document # fs[SchemaFile].content
    /\ fs' = [fs EXCEPT ![SchemaFile] = [exists |-> TRUE, mtime |-> now, content |-> document]]
    /\ ret' = [op |-> "rewrite"]
    /\ UNCHANGED <<now, sc, th, lastSet, distVars, facadeVars, parserVars, rulesVars,
                   registryVars>>

NextCoherence ==
    \/ \E t \in Parsers :
          \/ ParseXsd_call(t)
          \/ ParseXsd_check(t)
          \/ ParseXsd_get_read(t)
          \/ ParseXsd_get_is_expired(t)
          \/ ParseXsd_parse(t)
          \/ ParseXsd_set(t)
    \/ StampedeClock
    \/ \E document \in RuleDocuments : Rewrite(document)

SpecCoherence == InitCoherence /\ [][NextCoherence]_vars

(***************************************************************************)
(* C29.  Whenever check_file_staleness reports the entry for a key as      *)
(* fresh, the stored tree was parsed from the content the schema file has  *)
(* at that moment.  In particular, if the file is modified after the       *)
(* parser has read it but before parse_xsd stores the result, the next     *)
(* non-forced parse_xsd still detects the entry as stale and re-parses.    *)
(***************************************************************************)
ReportedFresh ==
    /\ StampedeKey \in DOMAIN sc.cache
    /\ ~SchemaCache_check_file_staleness(sc, StampedeKey, SchemaFile, fs)

Coherent == ReportedFresh => Some(sc.cache[StampedeKey].data) = FreshTree(StampedeRoot).node

C29_FreshEntryIsFromCurrentFile == Coherent

\* A caller stores a tree it parsed from content the file no longer has.
LateStore ==
    \E t \in Parsers :
        /\ th[t].pc = "set"
        /\ th'[t].pc = "done"
        /\ Some(th[t].result) # FreshTree(StampedeRoot).node

\* C29 apart from that race: coherence is lost only by the step that stores
\* a tree parsed before the file was last rewritten; a rewrite that follows
\* the store is always detected.
C29_CoherentUnlessStoredLate == [][LateStore \/ (Coherent => Coherent')]_vars

\* The file was rewritten, a caller found the entry stale and parsed again,
\* and the entry is fresh and holds the tree of the new content.
C29_Witness ==
    /\ fs[SchemaFile].mtime > 1
    /\ ReportedFresh
    /\ Some(sc.cache[StampedeKey].data) = FreshTree(StampedeRoot).node
    /\ \E t \in Parsers : th[t].pc = "done" /\ th[t].parsed

(***************************************************************************)
(* Version discovery (VersionManager._load_version_catalog).  dirs are the *)
(* names of the subdirectories that hold HPXML.xsd, files the suffixes of  *)
(* the HPXML-<suffix>.xsd files, each in the order the directory lists     *)
(* them; single tells whether the directory itself holds HPXML.xsd.        *)
(***************************************************************************)
VersionManager_load_version_catalog(dirs, files, single) ==
    LET from_dirs == [i \in 1..Len(dirs) |->
                        SchemaVersionInfo(dirs[i], VersionPath(dirs[i]),
                                          dirs[i] = <<"4", "0">>)]
        NotCataloged(version_str) == \A i \in 1..Len(dirs) : dirs[i] # version_str
        added == SelectSeq(files, NotCataloged)
        from_files == [i \in 1..Len(added) |->
                         SchemaVersionInfo(added[i],
                                           <<"schemas", "HPXML-">> \o added[i] \o <<".xsd">>,
                                           added[i] = <<"4", "0">>)]
        versions == from_dirs \o from_files
    IN  IF versions = <<>> /\ single
        THEN <<SchemaVersionInfo(<<"4", "0">>, <<"schemas", "HPXML.xsd">>, TRUE)>>
        ELSE versions

(***************************************************************************)
(* C30.  For every catalog that version discovery can build from a schema  *)
(* directory, get_available_versions and get_default_version return       *)
(* normally; a cataloged label that is not a parseable version string      *)
(* never makes them raise.                                                 *)
(***************************************************************************)
\* The catalog is the one discovery builds from a directory whose
\* subdirectories carry the catalog's labels.
Discovered ==
    vm.versions = VersionManager_load_version_catalog(
                      [i \in 1..Len(vm.versions) |-> vm.versions[i].version], <<>>, FALSE)

AskedForVersions == ret.op \in {"get_available_versions", "get_default_version"}

SomeLabelDoesNotParse == \E v \in Cataloged(vm) : version_parse(vm.packaging, v).raised

C30_DiscoveredCatalogNeverRaises == (Discovered /\ AskedForVersions) => ~ret.raised

\* What holds of the code: the listing raises exactly when some cataloged
\* label does not parse, and the default raises exactly when, in addition,
\* no version is flagged as the default.
C30_RaisesExactlyOnUnparseableLabel ==
    (Discovered /\ AskedForVersions) =>
        (ret.raised <=>
            /\ SomeLabelDoesNotParse
            /\ ret.op = "get_default_version" => Flagged = {})

\* A discovered catalog of two versions, neither of them 4.0, for which the
\* default was computed from the sorted listing.
C30_Witness ==
    /\ Discovered
    /\ ret.op = "get_default_version"
    /\ Len(vm.versions) = 2
    /\ Flagged = {}
    /\ ~ret.raised
    /\ ~IsNone(ret.val)

====
